---- MODULE Spec2Model ----
(***************************************************************************)
(* A model of the resume ingestion and retrieval pipeline:                 *)
(*   - the query orchestrator  (backend/api/vertex_search.py)              *)
(*   - the result reducer      (backend/api/chatbot_search_integration.py) *)
(*   - the ingestion job       (main.py, process_resume_upload)            *)
(*   - the upload/chat service (backend/api/main.py, embeddings.py,        *)
(*                              chat.py)                                   *)
(* Strings that the code splits on '_' are kept as the sequence of their   *)
(* '_'-free parts, so "cnd_u1_work_0" is <<"cnd","u1","work","0">> and     *)
(* str.split('_') is the identity on that representation while the         *)
(* f-string joins are concatenations of sequences.                         *)
(***************************************************************************)
EXTENDS Integers, Sequences, FiniteSets, TLC

\* ------------------------------------------------------------------ bounds
MaxNeighbors == 2
\* Entries per repeated section of a parsed resume.
MaxEntries == 1
\* Characters of an uploaded document's text.
MaxTextLen == 2
\* Chunks handed to one direct call of an upsert function.
MaxChunks == 2
MaxJsonLen == 5
\* Chunks of one candidate in the resume_chunks collection a query runs against.
MaxStoredChunks == 2
MaxChunkedLen == 3
MaxIterations == 4

\* ------------------------------------------------------------ value sets
\* "" stands for an absent filter (None or the empty string: both are falsy).
BatchTags == {"X", "Y"}
Recruiters == {"r1", "r2"}
Uuids == {"u1", "u2"}
TopKs == {1, 2}

CandidateId(u) == <<"cnd", u>>
CandidateIds == {CandidateId(u) : u \in Uuids}

\* Datapoint ids an index may hold: chunks of the known candidates and one
\* datapoint whose id does not follow the cnd_ convention.
IndexChunkIds ==
    {<<"cnd", "u1", "summary">>, <<"cnd", "u1", "work", "0">>,
     <<"cnd", "u2", "summary">>, <<"doc", "u1", "summary">>}

\* One element of a neighbour list.  kind "nbr": a neighbour object / dict,
\* whose id is <<>> when it carries neither id nor datapoint_id; kind "junk":
\* an element that is not a neighbour object / dict at all.
Entries ==
    [kind : {"nbr"}, id : IndexChunkIds \cup {<< >>}]
      \cup {[kind |-> "junk", id |-> << >>]}

SeqsUpTo(S, n) == UNION {[1..k -> S] : k \in 0..n}

\* A strategy's raw response.  shape "none": None / empty / no
\* nearestNeighbors key; "list": a neighbour list for the first query;
\* "malformed": a value the parser cannot walk (e.g. [None]).
Responses ==
    [shape : {"list"}, neighbors : SeqsUpTo(Entries, MaxNeighbors)]
      \cup [shape : {"none", "malformed"}, neighbors : {<< >>}]

\* Object names as the sequence of their '/'-free parts ("" is an empty part).
FileNames ==
    {<<"r1", "X", "a.pdf">>, <<"r2", "Y", "b.pdf">>, <<"r1", "a.pdf">>,
     <<"", "X", "a.pdf">>}

\* A document of the "candidates" collection: the fields process_resume_upload
\* writes that the pipeline reads back (the parsed profile fields are left out).
NoDoc == [exists |-> FALSE, batch_tag |-> "", recruiter_uuid |-> "",
          resume_gcs_url |-> << >>]
Docs == [exists : {TRUE}, batch_tag : BatchTags, recruiter_uuid : Recruiters,
         resume_gcs_url : FileNames]
\* The stores the search is run against: cnd_u1 missing or owned by r1 in
\* either batch, cnd_u2 missing or owned by r2 in batch X.
SearchStores ==
    {s \in [CandidateIds -> Docs \cup {NoDoc}] :
       /\ s[CandidateId("u1")].recruiter_uuid \in {"", "r1"}
       /\ s[CandidateId("u2")].batch_tag \in {"", "X"}
       /\ s[CandidateId("u2")].recruiter_uuid \in {"", "r2"}
       /\ \A c \in CandidateIds :
            s[c].resume_gcs_url \in {<< >>, <<"r1", "X", "a.pdf">>}}

VARIABLES
    \* vertex_search.py module globals (TRUE = set, FALSE = None)
    matching_engine_endpoint, DEPLOYMENT_ID, embedding_model, _credentials,
    \* the "candidates" collection of the document store
    candidates_store,
    \* find_neighbor_ids: position, arguments, attempt log, returned ids,
    \* and the exception it ended with ("" = none)
    fn_pc, fn_args, fn_attempts, fn_result, fn_error,
    \* search_candidates: position, arguments, the chunk ids it reduces,
    \* returned records, and whether the call already fell back to the older
    \* find_neighbor_ids signature
    sc_pc, sc_args, sc_chunk_ids, sc_result, sc_retried,
    \* search_candidates: the record ids its fetch loop went through, in
    \* order, with what each fetch met
    sc_fetched,
    \* process_resume_upload: position, locals, the steps completed so far,
    \* how the invocation ended, and the uuid4 values drawn so far
    job_pc, job, job_log, job_outcome, uuids_drawn,
    \* the Vertex AI vector index: datapoint id -> datapoint
    vector_index,
    \* the "resume_chunks" collection: document id -> document
    resume_chunks,
    \* upload_resume: the form fields received with each session id, and the
    \* steps and status of the latest request
    upload_requests, upload_log, upload_status,
    \* chat_handler: the latest request, the chunks answer_query put in its
    \* prompt, what answer_query returned, and the status
    chat_request, top_chunks, chat_result, chat_status,
    \* the previous direct call of an upsert function
    last_upsert,
    \* the latest direct call of a helper function, and what it returned
    called, returned,
    \* firestore.py module global _db (0 = None, n = the n-th client made),
    \* how many times firestore.Client() has been constructed for it, and
    \* what each request thread is doing in an initialiser
    _db, clients_created, requests,
    \* upload.py: the objects of the storage bucket by path, and the upload
    \* service's answer to the latest upload_resume request
    bucket, upload_response

globalVars == <<matching_engine_endpoint, DEPLOYMENT_ID, embedding_model, _credentials>>
fnVars == <<fn_pc, fn_args, fn_attempts, fn_result, fn_error>>
scVars == <<sc_pc, sc_args, sc_chunk_ids, sc_result, sc_retried, sc_fetched>>
searchVars == <<globalVars, candidates_store, fnVars, scVars>>
jobVars == <<job_pc, job, job_log, job_outcome, uuids_drawn>>
ingestVars == <<jobVars, vector_index>>
uploadVars == <<upload_requests, upload_log, upload_status>>
chatVars == <<chat_request, top_chunks, chat_result, chat_status>>
apiVars == <<resume_chunks, uploadVars, chatVars>>
helperVars == <<called, returned>>
threadVars == <<_db, clients_created, requests>>
storageVars == <<bucket, upload_response>>
vars == <<searchVars, ingestVars, apiVars, last_upsert, helperVars, threadVars, storageVars>>

\* What the steps of one part of the program leave alone.
notSearchVars == <<ingestVars, apiVars, last_upsert, helperVars, threadVars, storageVars>>
notJobVars == <<globalVars, fnVars, scVars, apiVars, last_upsert, helperVars, threadVars, storageVars>>
notServiceVars == <<searchVars, ingestVars, last_upsert, helperVars, threadVars, storageVars>>
notUpsertVars == <<searchVars, jobVars, uploadVars, chatVars, helperVars, threadVars, storageVars>>
notHelperVars == <<searchVars, ingestVars, apiVars, last_upsert, threadVars, storageVars>>
notThreadVars ==
    <<candidates_store, fnVars, scVars, ingestVars, apiVars, last_upsert, helperVars,
      storageVars>>
notStorageVars ==
    <<searchVars, ingestVars, apiVars, last_upsert, helperVars, threadVars>>

NoArgs == [batch_tag |-> "", recruiter_uuid |-> "", top_k |-> 0]
NoScArgs == [batch_tag |-> "", recruiter_uuid |-> "", top_k |-> 0,
             neighbor_ids |-> << >>]

\* ------------------------------------------------------- initialize_globals
\* env.endpoint_ok: MatchingEngineIndexEndpoint(...) does not raise;
\* env.deployed: _discover_deployment_id finds a deployed index;
\* env.creds_ok: google.auth.default does not raise.
InitEnvs == [creds_ok : BOOLEAN, endpoint_ok : BOOLEAN, deployed : BOOLEAN]

\* Lines 56-94: what the function does past its check.  It raises when the
\* endpoint wrapper cannot be made (line 81) and when no deployed index is
\* found (line 86), with the globals assigned before left as they are.
InitialiseGlobals(env) ==
    /\ embedding_model' = TRUE
    /\ _credentials' = env.creds_ok
    /\ matching_engine_endpoint' =
         IF env.endpoint_ok THEN TRUE ELSE matching_engine_endpoint
    /\ DEPLOYMENT_ID' =
         IF env.endpoint_ok THEN env.deployed ELSE DEPLOYMENT_ID

InitialiseGlobalsRaises(env) == ~env.endpoint_ok \/ ~env.deployed

initialize_globals(env) ==
    IF matching_engine_endpoint /\ embedding_model
    THEN UNCHANGED globalVars
    ELSE InitialiseGlobals(env)

\* --------------------------------------------------------- response parsers
HasId(e) == e.kind = "nbr" /\ e.id # << >>
IdOf(e) == e.id

RECURSIVE MapIds(_)
MapIds(s) == IF s = << >> THEN << >> ELSE <<IdOf(Head(s))>> \o MapIds(Tail(s))

\* getattr(neighbor, 'id', None) never raises: an element without an id is
\* skipped; only a response that cannot be walked raises, and that is caught.
_parse_find_neighbors_response(response) ==
    IF response.shape = "list"
    THEN MapIds(SelectSeq(response.neighbors, HasId))
    ELSE << >>

_parse_match_response(response) ==
    IF response.shape = "list"
    THEN MapIds(SelectSeq(response.neighbors, HasId))
    ELSE << >>

\* n.get(...) raises on an element that is not a dict; the except clause then
\* discards the ids collected so far and returns [].
_parse_rest_response(response) ==
    IF response.shape = "list"
         /\ \A i \in 1..Len(response.neighbors) : response.neighbors[i].kind = "nbr"
    THEN MapIds(SelectSeq(response.neighbors, HasId))
    ELSE << >>

\* ---------------------------------------------------------- request filters
\* filter_restrictions of find_neighbor_ids, as a set of <<namespace, token>>.
filter_restrictions(batch_tag, recruiter_uuid) ==
    (IF batch_tag # "" THEN {<<"batch_tag", batch_tag>>} ELSE {})
      \cup (IF recruiter_uuid # "" THEN {<<"recruiter_uuid", recruiter_uuid>>} ELSE {})

\* The filters carried by the request each strategy sends.
find_neighbors_request(args) == {}
match_request(args) == filter_restrictions(args.batch_tag, args.recruiter_uuid)
_rest_api_search_request(args) ==
    (IF args.batch_tag # "" THEN {<<"batch_tag", args.batch_tag>>} ELSE {})
      \cup (IF args.recruiter_uuid # ""
            THEN {<<"recruiter_uuid", args.recruiter_uuid>>} ELSE {})

Attempt(strategy, sent, filters, raised, response) ==
    [strategy |-> strategy, sent |-> sent, filters |-> filters,
     raised |-> raised, response |-> response]
NoResponse == [shape |-> "none", neighbors |-> << >>]

\* How one strategy call can end: "capability" = the operation is absent or
\* cannot be started (AttributeError, no credentials), nothing is sent;
\* "runtime" = the request is sent and the call raises; "ok" = it returns.
Outcomes == {"capability", "runtime", "ok"}

\* ------------------------------------------------------- find_neighbor_ids
\* Entry checks and query embedding (lines 182-198).  embed is how
\* get_text_embedding ends: "ok", or the class of the exception it re-raises.
find_neighbor_ids_enter(embed) ==
    /\ fn_pc = "enter"
    /\ IF ~matching_engine_endpoint \/ ~DEPLOYMENT_ID
       THEN fn_pc' = "raised" /\ fn_error' = "RuntimeError"
       ELSE IF ~embedding_model
       THEN fn_pc' = "raised" /\ fn_error' = "RuntimeError"
       ELSE IF embed # "ok"
       THEN fn_pc' = "raised" /\ fn_error' = embed
       ELSE fn_pc' = "A" /\ fn_error' = ""
    /\ UNCHANGED <<fn_args, fn_attempts, fn_result>>
    /\ UNCHANGED <<globalVars, candidates_store, scVars>>
    /\ UNCHANGED notSearchVars

\* StrategyA with a failure falling through to the REST call, skipping match.
StrategyA_skips_match(outcome, response) ==
    /\ fn_pc = "A"
    /\ fn_attempts' = Append(fn_attempts,
          Attempt("A",
                  IF outcome = "capability" THEN "unsent" ELSE "sent",
                  find_neighbors_request(fn_args),
                  outcome # "ok",
                  IF outcome = "ok" THEN response ELSE NoResponse))
    /\ IF outcome = "ok"
       THEN /\ fn_result' = _parse_find_neighbors_response(response)
            /\ fn_pc' = "returned"
       ELSE /\ fn_result' = fn_result
            /\ fn_pc' = "C"
    /\ UNCHANGED <<fn_args, fn_error>>
    /\ UNCHANGED <<globalVars, candidates_store, scVars>>
    /\ UNCHANGED notSearchVars

\* Step 3: matching_engine_endpoint.find_neighbors (lines 222-238).
StrategyA(outcome, response) ==
    /\ fn_pc = "A"
    /\ fn_attempts' = Append(fn_attempts,
          Attempt("A",
                  IF outcome = "capability" THEN "unsent" ELSE "sent",
                  find_neighbors_request(fn_args),
                  outcome # "ok",
                  IF outcome = "ok" THEN response ELSE NoResponse))
    /\ IF outcome = "ok"
       THEN /\ fn_result' = _parse_find_neighbors_response(response)
            /\ fn_pc' = "returned"
       ELSE /\ fn_result' = fn_result
            /\ fn_pc' = "B"
    /\ UNCHANGED <<fn_args, fn_error>>
    /\ UNCHANGED <<globalVars, candidates_store, scVars>>
    /\ UNCHANGED notSearchVars

\* Step 4: matching_engine_endpoint.match (lines 240-261).
StrategyB(outcome, response) ==
    /\ fn_pc = "B"
    /\ fn_attempts' = Append(fn_attempts,
          Attempt("B",
                  IF outcome = "capability" THEN "unsent" ELSE "sent",
                  match_request(fn_args),
                  outcome # "ok",
                  IF outcome = "ok" THEN response ELSE NoResponse))
    /\ IF outcome = "ok"
       THEN /\ fn_result' = _parse_match_response(response)
            /\ fn_pc' = "returned"
       ELSE /\ fn_result' = fn_result
            /\ fn_pc' = "C"
    /\ UNCHANGED <<fn_args, fn_error>>
    /\ UNCHANGED <<globalVars, candidates_store, scVars>>
    /\ UNCHANGED notSearchVars

\* Step 5: _rest_api_search (lines 263-282, 403-464).  Without credentials
\* the call raises before any request is built.
StrategyC(outcome, response) ==
    /\ fn_pc = "C"
    /\ LET out == IF ~_credentials THEN "capability" ELSE outcome
       IN /\ fn_attempts' = Append(fn_attempts,
                Attempt("C",
                        IF out = "capability" THEN "unsent" ELSE "sent",
                        _rest_api_search_request(fn_args),
                        out # "ok",
                        IF out = "ok" THEN response ELSE NoResponse))
          /\ IF out = "ok"
             THEN /\ fn_result' = _parse_rest_response(response)
                  /\ fn_pc' = "returned"
                  /\ fn_error' = fn_error
             ELSE /\ fn_result' = fn_result
                  /\ fn_pc' = "raised"
                  /\ fn_error' = "RuntimeError"
    /\ UNCHANGED <<fn_args>>
    /\ UNCHANGED <<globalVars, candidates_store, scVars>>
    /\ UNCHANGED notSearchVars

\* extract_candidate_ids keeping only the first part of a chunk id.
extract_candidate_ids_first_part(chunk_ids) ==
    {<<chunk_ids[i][1]>> :
        i \in {j \in 1..Len(chunk_ids) :
                 Len(chunk_ids[j]) >= 2 /\ chunk_ids[j][1] = "cnd"}}

\* -------------------------------------------------------- result reducer
\* extract_candidate_ids builds a set: the first two '_'-parts of every chunk
\* id that has at least two parts and starts with "cnd".
extract_candidate_ids(chunk_ids) ==
    {<<chunk_ids[i][1], chunk_ids[i][2]>> :
        i \in {j \in 1..Len(chunk_ids) :
                 Len(chunk_ids[j]) >= 2 /\ chunk_ids[j][1] = "cnd"}}

\* list(set): every order of the set's elements is a possible result.
ListsOf(S) ==
    {f \in [1..Cardinality(S) -> S] : \A i, j \in 1..Cardinality(S) : f[i] = f[j] => i = j}

Prefix(s, n) == SubSeq(s, 1, IF n < Len(s) THEN n ELSE Len(s))

\* Keeps without the batch_tag double-check.
Keeps_without_batch_check(candidate_id, batch_tag, recruiter_uuid, failing) ==
    LET data == candidates_store[candidate_id]
    IN /\ candidate_id \notin failing
       /\ data.exists
       /\ ~(recruiter_uuid # "" /\ data.recruiter_uuid # recruiter_uuid)

\* One iteration of the fetch loop (lines 111-136): TRUE when the record is
\* appended.  failing holds the ids whose document get raises.
Keeps(candidate_id, batch_tag, recruiter_uuid, failing) ==
    LET data == candidates_store[candidate_id]
    IN /\ candidate_id \notin failing
       /\ data.exists
       /\ ~(batch_tag # "" /\ data.batch_tag # batch_tag)
       /\ ~(recruiter_uuid # "" /\ data.recruiter_uuid # recruiter_uuid)

Profile(candidate_id) ==
    [candidate_id |-> candidate_id,
     batch_tag |-> candidates_store[candidate_id].batch_tag,
     recruiter_uuid |-> candidates_store[candidate_id].recruiter_uuid]

RECURSIVE FetchProfiles(_, _, _, _)
FetchProfiles(ids, batch_tag, recruiter_uuid, failing) ==
    IF ids = << >> THEN << >>
    ELSE (IF Keeps(Head(ids), batch_tag, recruiter_uuid, failing)
          THEN <<Profile(Head(ids))>> ELSE << >>)
           \o FetchProfiles(Tail(ids), batch_tag, recruiter_uuid, failing)

\* The candidate lists search_candidates can return for chunk_ids (lines
\* 72-141), one per order list(set) may produce.
Reduced(chunk_ids, args, failing) ==
    IF chunk_ids = << >> \/ extract_candidate_ids(chunk_ids) = {}
    THEN {<< >>}
    ELSE {FetchProfiles(Prefix(order, args.top_k), args.batch_tag,
                        args.recruiter_uuid, failing) :
            order \in ListsOf(extract_candidate_ids(chunk_ids))}

\* The orders in which search_candidates can go through the record ids of
\* chunk_ids: list(set) gives any.
CandidateOrders(chunk_ids) ==
    IF chunk_ids = << >> \/ extract_candidate_ids(chunk_ids) = {}
    THEN {<< >>}
    ELSE ListsOf(extract_candidate_ids(chunk_ids))

\* What one pass of the fetch loop meets (lines 112-136).
FetchOutcome(candidate_id, batch_tag, recruiter_uuid, failing) ==
    LET data == candidates_store[candidate_id]
    IN IF candidate_id \in failing THEN "error"
       ELSE IF ~data.exists THEN "not_found"
       ELSE IF batch_tag # "" /\ data.batch_tag # batch_tag THEN "batch_mismatch"
       ELSE IF recruiter_uuid # "" /\ data.recruiter_uuid # recruiter_uuid
       THEN "recruiter_mismatch"
       ELSE "kept"

FetchLog(ids, args, failing) ==
    [i \in 1..Len(ids) |->
        [candidate_id |-> ids[i],
         outcome |-> FetchOutcome(ids[i], args.batch_tag, args.recruiter_uuid, failing)]]

\* The list the fetch loop builds from the ids it goes through (lines 108-141).
FetchResult(ids, args, failing) ==
    FetchProfiles(ids, args.batch_tag, args.recruiter_uuid, failing)

\* ------------------------------------------------------- search_candidates
\* Lines 31-70: initialize_globals (its exception is swallowed), then either
\* the caller's neighbor_ids or a call of find_neighbor_ids with top_k * 3.
search_candidates_start(recruiter_uuid, batch_tag, top_k, neighbor_ids, env) ==
    /\ sc_pc = "idle"
    /\ initialize_globals(env)
    /\ sc_args' = [batch_tag |-> batch_tag, recruiter_uuid |-> recruiter_uuid,
                   top_k |-> top_k, neighbor_ids |-> neighbor_ids]
    /\ sc_chunk_ids' = << >>
    /\ sc_result' = << >>
    /\ sc_fetched' = << >>
    /\ sc_retried' = FALSE
    /\ fn_attempts' = << >>
    /\ fn_result' = << >>
    /\ fn_error' = ""
    /\ IF neighbor_ids # << >>
       THEN /\ sc_pc' = "reduce"
            /\ fn_pc' = "idle"
            /\ fn_args' = NoArgs
       ELSE /\ sc_pc' = "searching"
            /\ fn_pc' = "enter"
            /\ fn_args' = [batch_tag |-> batch_tag,
                           recruiter_uuid |-> recruiter_uuid,
                           top_k |-> top_k * 3]
    /\ UNCHANGED candidates_store
    /\ UNCHANGED notSearchVars

\* Lines 61-67: a TypeError from find_neighbor_ids makes the caller call it
\* again without recruiter_uuid.
search_candidates_older_signature ==
    /\ sc_pc = "searching"
    /\ fn_pc = "raised"
    /\ fn_error = "TypeError"
    /\ ~sc_retried
    /\ sc_retried' = TRUE
    /\ fn_pc' = "enter"
    /\ fn_args' = [fn_args EXCEPT !.recruiter_uuid = ""]
    /\ fn_attempts' = << >>
    /\ fn_result' = << >>
    /\ fn_error' = ""
    /\ UNCHANGED <<sc_pc, sc_args, sc_chunk_ids, sc_result, sc_fetched>>
    /\ UNCHANGED <<globalVars, candidates_store>>
    /\ UNCHANGED notSearchVars

\* The chunk ids search_candidates goes on with once the search has ended.
SearchEnded ==
    \/ sc_pc = "reduce"
    \/ /\ sc_pc = "searching"
       /\ \/ fn_pc = "returned"
          \/ fn_pc = "raised" /\ (fn_error # "TypeError" \/ sc_retried)

ChunkIdsFound ==
    IF sc_pc = "reduce" THEN sc_args.neighbor_ids
    ELSE IF fn_pc = "returned" THEN fn_result
    ELSE << >>

\* Lines 72-147.  client_ok: firestore.Client() does not raise; an exception
\* of the second find_neighbor_ids call or of the client ends in return [].
search_candidates_reduce(failing, client_ok) ==
    /\ SearchEnded
    /\ sc_chunk_ids' = ChunkIdsFound
    /\ \E order \in CandidateOrders(ChunkIdsFound) :
          LET ids == Prefix(order, sc_args.top_k)
          IN IF client_ok \/ ids = << >>
             THEN /\ sc_result' = FetchResult(ids, sc_args, failing)
                  /\ sc_fetched' = FetchLog(ids, sc_args, failing)
             ELSE /\ sc_result' = << >>
                  /\ sc_fetched' = << [candidate_id |-> << >>, outcome |-> "client_error"] >>
    /\ sc_pc' = "done"
    /\ fn_pc' = "idle"
    /\ fn_args' = NoArgs
    /\ fn_attempts' = << >>
    /\ fn_result' = << >>
    /\ fn_error' = ""
    /\ UNCHANGED <<sc_args, sc_retried>>
    /\ UNCHANGED <<globalVars, candidates_store>>
    /\ UNCHANGED notSearchVars

\* The caller takes the result; the next request may start.
search_candidates_return ==
    /\ sc_pc = "done"
    /\ sc_pc' = "idle"
    /\ sc_args' = NoScArgs
    /\ sc_chunk_ids' = << >>
    /\ sc_result' = << >>
    /\ sc_fetched' = << >>
    /\ sc_retried' = FALSE
    /\ UNCHANGED <<globalVars, candidates_store, fnVars>>
    /\ UNCHANGED notSearchVars

\* --------------------------------------------- direct orchestrator calls
\* verify_vector_index_data / test_search: initialize_globals(), then
\* find_neighbor_ids(query, batch_tag, recruiter_uuid, top_k).  An exception
\* of initialize_globals ends the caller before the search starts.
InitRaises(env) ==
    /\ ~(matching_engine_endpoint /\ embedding_model)
    /\ (~env.endpoint_ok \/ ~env.deployed)

find_neighbor_ids_call(recruiter_uuid, batch_tag, top_k, env) ==
    /\ sc_pc = "idle"
    /\ fn_pc = "idle"
    /\ initialize_globals(env)
    /\ IF InitRaises(env)
       THEN UNCHANGED fnVars
       ELSE /\ fn_pc' = "enter"
            /\ fn_args' = [batch_tag |-> batch_tag,
                           recruiter_uuid |-> recruiter_uuid, top_k |-> top_k]
            /\ fn_attempts' = << >>
            /\ fn_result' = << >>
            /\ fn_error' = ""
    /\ UNCHANGED <<candidates_store, scVars>>
    /\ UNCHANGED notSearchVars

\* The direct caller takes the ids or the exception.
find_neighbor_ids_return ==
    /\ sc_pc = "idle"
    /\ fn_pc \in {"returned", "raised"}
    /\ fn_pc' = "idle"
    /\ fn_args' = NoArgs
    /\ fn_attempts' = << >>
    /\ fn_result' = << >>
    /\ fn_error' = ""
    /\ UNCHANGED <<globalVars, candidates_store, scVars>>
    /\ UNCHANGED notSearchVars

\* ============================================================ ingestion
\* ------------------------------------------------------------ parsed resume
\* ResumeSchema with its free-text fields drawn from one-token vocabularies;
\* "" and << >> are the declared empty defaults.
ParsedResumes ==
    [name : {"n"}, summary : {"", "s"}, skills : SeqsUpTo({"k"}, MaxEntries),
     work_experience : SeqsUpTo({"j"}, MaxEntries),
     education : SeqsUpTo({"e"}, MaxEntries),
     projects : SeqsUpTo({"p"}, MaxEntries)]

Ordinals == <<"0", "1", "2", "3">>
Ordinal(i) == Ordinals[i + 1]

\* parse_gcs_path taking a path of two parts for a full one.
parse_gcs_path_two_parts(path) ==
    IF Len(path) >= 2 THEN <<path[1], path[2]>> ELSE <<"", "">>

\* parse_gcs_path: the first two parts when there are at least three.
parse_gcs_path(path) ==
    IF Len(path) >= 3 THEN <<path[1], path[2]>> ELSE <<"", "">>

\* The entries of one section numbered from 1.
SectionChunks_from_one(candidate_id, label, entries) ==
    [i \in 1..Len(entries) |->
        [id |-> candidate_id \o <<label, Ordinal(i)>>,
         text_content |-> <<label, entries[i]>>]]

\* chunk_parsed_resume: ids and texts in the order the function appends them.
SectionChunks(candidate_id, label, entries) ==
    [i \in 1..Len(entries) |->
        [id |-> candidate_id \o <<label, Ordinal(i - 1)>>,
         text_content |-> <<label, entries[i]>>]]

chunk_parsed_resume(candidate_id, parsed_data) ==
    (IF parsed_data.summary # ""
     THEN << [id |-> candidate_id \o <<"summary">>,
              text_content |-> <<"summary", parsed_data.name, parsed_data.summary>>] >>
     ELSE << >>)
    \o (IF parsed_data.skills # << >>
        THEN << [id |-> candidate_id \o <<"skills">>,
                 text_content |-> <<"skills", parsed_data.name>> \o parsed_data.skills] >>
        ELSE << >>)
    \o SectionChunks(candidate_id, "work", parsed_data.work_experience)
    \o SectionChunks(candidate_id, "edu", parsed_data.education)
    \o SectionChunks(candidate_id, "project", parsed_data.projects)

\* ----------------------------------------------------------- get_embeddings
\* A vector is known by the text it embeds and by whether its length is the
\* index's dimension.  The endpoint answers texts with count vectors, in
\* order; one past the texts embeds nothing that was submitted.
Vector(text, dim) == [of |-> text, dim |-> dim]

EmbeddingResponse(texts, count, first_dim) ==
    [i \in 1..count |->
        Vector(IF i <= Len(texts) THEN texts[i] ELSE <<"unrequested">>,
               IF i = 1 THEN first_dim ELSE "index_dim")]

\* ------------------------------------------------- upsert_to_vector_search
\* vector_restrictions without the candidate_id namespace.
vector_restrictions_without_candidate_id(recruiter_uuid, batch_tag, candidate_id) ==
    << [namespace |-> "recruiter_uuid", allow_list |-> <<recruiter_uuid>>],
       [namespace |-> "batch_tag", allow_list |-> <<batch_tag>>] >>

\* vector_restrictions of process_resume_upload (lines 609-613).
vector_restrictions(recruiter_uuid, batch_tag, candidate_id) ==
    << [namespace |-> "recruiter_uuid", allow_list |-> <<recruiter_uuid>>],
       [namespace |-> "batch_tag", allow_list |-> <<batch_tag>>],
       [namespace |-> "candidate_id", allow_list |-> <<candidate_id>>] >>

\* The datapoints built in lines 615-635: one per embedding, paired with the
\* chunk id at the same position.
Datapoints(chunk_ids, embeddings, restricts) ==
    [i \in 1..Len(embeddings) |->
        [datapoint_id |-> chunk_ids[i],
         feature_vector |-> embeddings[i],
         restricts |-> restricts]]

\* The request body of upsertDatapoints (lines 489-512).
RequestBody(datapoints) ==
    [i \in 1..Len(datapoints) |->
        [datapointId |-> datapoints[i].datapoint_id,
         featureVector |-> datapoints[i].feature_vector,
         restricts |->
            [r \in 1..Len(datapoints[i].restricts) |->
                [namespace |-> datapoints[i].restricts[r].namespace,
                 allowList |-> datapoints[i].restricts[r].allow_list]]]]

\* What an accepted upsertDatapoints request does to the index: each
\* datapoint is stored under its id; for an id listed twice the last one wins.
LastWith(body, id) ==
    body[CHOOSE i \in 1..Len(body) :
           /\ body[i].datapointId = id
           /\ \A j \in (i + 1)..Len(body) : body[j].datapointId # id]

IndexAfter(index, body) ==
    LET ids == {body[i].datapointId : i \in 1..Len(body)}
    IN [id \in DOMAIN index \cup ids |->
          IF id \in ids THEN LastWith(body, id) ELSE index[id]]

\* ---------------------------------------------------- process_resume_upload
\* ------------------------------------------------ parse_resume_with_gemini
\* How a field of the decoded object stands to ResumeSchema: not there, a
\* value of the declared type, or a value pydantic cannot take for it (an
\* object for a string, a string for a list).
FieldKinds == {"absent", "ok", "wrong_type"}

JsonObjects ==
    [summary : FieldKinds, skills : {"absent", "wrong_type"}, work_experience : FieldKinds]

NoFields == [summary |-> "absent", skills |-> "absent", work_experience |-> "absent"]

AllOk == [summary |-> "ok", skills |-> "absent", work_experience |-> "ok"]

\* What a text stands for once it is well-formed JSON.  first: the object
\* itself, or the first element of a list of objects.
JsonValues ==
    [kind : {"object"}, first : JsonObjects]
      \cup [kind : {"list_of_objects"}, first : {AllOk}]
      \cup [kind : {"list_of_scalars", "empty_list", "number", "string", "null"},
            first : {NoFields}]

\* A text of the model's reply.  wrap: "bare", inside a ``` fence, or with
\* prose around it; quoting: the JSON quotation marks are ASCII or
\* typographic; broken: another syntax error (a trailing comma).
GeminiText(wrap, quoting, broken, value) ==
    [wrap |-> wrap, quoting |-> quoting, broken |-> broken, value |-> value]

NoText == GeminiText("bare", "ascii", FALSE, [kind |-> "null", first |-> NoFields])

GeminiTexts ==
    {GeminiText("bare", "ascii", FALSE, v) : v \in JsonValues}
      \cup {GeminiText(w, "ascii", FALSE, v) :
              w \in {"fenced", "prose"},
              v \in {[kind |-> "object", first |-> AllOk],
                     [kind |-> "number", first |-> NoFields]}}
      \cup {GeminiText("bare", "smart", b, [kind |-> "object", first |-> AllOk]) :
              b \in BOOLEAN}
      \cup {GeminiText("bare", "ascii", TRUE, [kind |-> "object", first |-> AllOk])}

\* The HTTP response of generateContent (lines 245-275).
GeminiReply(status, shape, text) == [status |-> status, shape |-> shape, text |-> text]

NoReply == GeminiReply(0, "", NoText)

GeminiReplies ==
    {GeminiReply(500, "", NoText)}
      \cup {GeminiReply(200, sh, NoText) : sh \in {"no_candidates", "no_parts", "no_text"}}
      \cup {GeminiReply(200, "text", t) : t \in GeminiTexts}

\* parse: what parse_resume_with_gemini did in this invocation.  decoded:
\* the texts json.loads was applied to, in order; stage: where it raised.
NoParse == [reply |-> NoReply, stage |-> "", decoded |-> << >>]

NoParsed == [name |-> "", summary |-> "", skills |-> << >>,
             work_experience |-> << >>, education |-> << >>, projects |-> << >>]
\* calls: the calls the invocation has made to its collaborators, in order;
\* received: how many vectors get_embeddings returned (-1: it has not);
\* raw_text: what extract_text_from_pdf returned ("text": some text, "empty":
\* the empty string or blanks alone); parse: see NoParse.
NoJob == [file_name |-> << >>, recruiter_uuid |-> "", batch_tag |-> "",
          parsed_data |-> NoParsed, candidate_id |-> << >>, chunks |-> << >>,
          embeddings |-> << >>, request |-> << >>, upsert_attempts |-> 0,
          calls |-> << >>, received |-> -1, raw_text |-> "", parse |-> NoParse]

JobEnds(outcome) ==
    /\ job_pc' = "done"
    /\ job_outcome' = outcome

\* Lines 539-555: the event's object name and the path check.
process_resume_upload_start(file_name) ==
    /\ job_pc = "idle"
    /\ job_log' = << >>
    /\ LET path == parse_gcs_path(file_name)
       IN IF file_name = << >>
          THEN /\ JobEnds("no_file_name")
               /\ job' = NoJob
          ELSE IF path[1] = "" \/ path[2] = ""
          THEN /\ JobEnds("skipped_path")
               /\ job' = [NoJob EXCEPT !.file_name = file_name]
          ELSE /\ job_pc' = "extract"
               /\ job_outcome' = ""
               /\ job' = [NoJob EXCEPT !.file_name = file_name,
                                       !.recruiter_uuid = path[1],
                                       !.batch_tag = path[2]]
    /\ UNCHANGED <<uuids_drawn, vector_index, candidates_store>>
    /\ UNCHANGED notJobVars

\* process_resume_upload_extract without the return of lines 560-562.
process_resume_upload_extract_parses_empty(text) ==
    /\ job_pc = "extract"
    /\ IF text = "raise" THEN JobEnds("error_extract")
       ELSE job_pc' = "parse" /\ job_outcome' = ""
    /\ job_log' = IF text = "text" THEN Append(job_log, "extracted") ELSE job_log
    /\ job' = [job EXCEPT !.calls = Append(@, "extract_text_from_pdf"),
                          !.raw_text = IF text = "raise" THEN "" ELSE text]
    /\ UNCHANGED <<uuids_drawn, vector_index, candidates_store>>
    /\ UNCHANGED notJobVars

\* Lines 557-563.  text: "text", "empty", or "raise" (download / PDF error).
process_resume_upload_extract(text) ==
    /\ job_pc = "extract"
    /\ IF text = "raise" THEN JobEnds("error_extract")
       ELSE IF text = "empty" THEN JobEnds("empty_text")
       ELSE job_pc' = "parse" /\ job_outcome' = ""
    /\ job_log' = IF text = "text" THEN Append(job_log, "extracted") ELSE job_log
    /\ job' = [job EXCEPT !.calls = Append(@, "extract_text_from_pdf"),
                          !.raw_text = IF text = "raise" THEN "" ELSE text]
    /\ UNCHANGED <<uuids_drawn, vector_index, candidates_store>>
    /\ UNCHANGED notJobVars

\* Lines 278-297: the first balanced {...} of the text when there is one
\* (an object, or the first object of a list), else the inside of the fence,
\* else the whole text stripped.
CleanedJsonText(raw) ==
    IF raw.value.kind \in {"object", "list_of_objects"}
    THEN GeminiText("bare", raw.quoting, raw.broken,
                    [kind |-> "object", first |-> raw.value.first])
    ELSE IF raw.wrap = "fenced" THEN [raw EXCEPT !.wrap = "bare"]
    ELSE raw

\* json.loads: the value of a well-formed text, an error for any other.
json_loads(text) ==
    IF text.wrap = "prose" \/ text.broken \/ text.quoting = "smart"
    THEN [ok |-> FALSE, value |-> NoText.value]
    ELSE [ok |-> TRUE, value |-> text.value]

\* Line 308: typographic quotation marks replaced by ASCII ones.
NormaliseQuotes(text) == [text EXCEPT !.quoting = "ascii"]

ParseRaised(stage, decoded) ==
    [raised |-> TRUE, stage |-> stage, decoded |-> decoded, validated_data |-> NoParsed]

ParseReturned(validated_data, decoded) ==
    [raised |-> FALSE, stage |-> "", decoded |-> decoded,
     validated_data |-> validated_data]

\* ResumeSchema.parse_obj (lines 70-78, 337): a field that is absent takes
\* its default; a value of the wrong type is a ValidationError.
parse_obj_raises(fields) ==
    \/ fields.summary = "wrong_type"
    \/ fields.skills = "wrong_type"
    \/ fields.work_experience = "wrong_type"

parse_obj(fields) ==
    [name |-> "",
     summary |-> IF fields.summary = "ok" THEN "s" ELSE "",
     skills |-> << >>,
     work_experience |-> IF fields.work_experience = "ok" THEN <<"j">> ELSE << >>,
     education |-> << >>,
     projects |-> << >>]

\* Lines 327-340: a list gives its first element when that is an object, any
\* other value that is not an object becomes {}, and the object is validated.
ValidatedFrom(value, decoded) ==
    LET parsed_json == IF value.kind \in {"object", "list_of_objects"}
                       THEN value.first
                       ELSE NoFields
    IN IF parse_obj_raises(parsed_json)
       THEN ParseRaised("validation", decoded)
       ELSE ParseReturned(parse_obj(parsed_json), decoded)

\* parse_resume_with_gemini giving up at the first json.loads failure.
parse_resume_with_gemini_no_retry(reply) ==
    IF reply.status # 200 THEN ParseRaised("http", << >>)
    ELSE IF reply.shape # "text" THEN ParseRaised("response", << >>)
    ELSE LET cleaned_json_text == CleanedJsonText(reply.text)
         IN IF json_loads(cleaned_json_text).ok
            THEN ValidatedFrom(json_loads(cleaned_json_text).value, <<cleaned_json_text>>)
            ELSE ParseRaised("json_decode", <<cleaned_json_text>>)

\* parse_resume_with_gemini (lines 200-350) on the endpoint's reply.
parse_resume_with_gemini(reply) ==
    IF reply.status # 200 THEN ParseRaised("http", << >>)
    ELSE IF reply.shape # "text" THEN ParseRaised("response", << >>)
    ELSE LET cleaned_json_text == CleanedJsonText(reply.text)
             tentative == NormaliseQuotes(cleaned_json_text)
         IN IF json_loads(cleaned_json_text).ok
            THEN ValidatedFrom(json_loads(cleaned_json_text).value, <<cleaned_json_text>>)
            ELSE IF json_loads(tentative).ok
            THEN ValidatedFrom(json_loads(tentative).value,
                               <<cleaned_json_text, tentative>>)
            ELSE ParseRaised("json_decode", <<cleaned_json_text, tentative>>)

\* Lines 565-567 with the parser's steps: the endpoint answers reply.
process_resume_upload_parse_reply(reply) ==
    /\ job_pc = "parse"
    /\ LET r == parse_resume_with_gemini(reply)
           parse == [reply |-> reply, stage |-> r.stage, decoded |-> r.decoded]
       IN IF r.raised
          THEN /\ JobEnds("error_parse")
               /\ job' = [job EXCEPT !.calls = Append(@, "parse_resume_with_gemini"),
                                     !.parse = parse]
               /\ UNCHANGED job_log
          ELSE /\ job_pc' = "save"
               /\ job_outcome' = ""
               /\ job' = [job EXCEPT !.parsed_data = r.validated_data,
                                     !.calls = Append(@, "parse_resume_with_gemini"),
                                     !.parse = parse]
               /\ job_log' = Append(job_log, "parsed")
    /\ UNCHANGED <<uuids_drawn, vector_index, candidates_store>>
    /\ UNCHANGED notJobVars

\* Lines 565-567.  parsed: the ResumeSchema returned, or NoParsed with
\* raised = TRUE when parse_resume_with_gemini raises.
process_resume_upload_parse(raised, parsed) ==
    /\ job_pc = "parse"
    /\ IF raised
       THEN /\ JobEnds("error_parse")
            /\ job' = [job EXCEPT !.calls = Append(@, "parse_resume_with_gemini")]
            /\ UNCHANGED job_log
       ELSE /\ job_pc' = "save"
            /\ job_outcome' = ""
            /\ job' = [job EXCEPT !.parsed_data = parsed,
                                  !.calls = Append(@, "parse_resume_with_gemini")]
            /\ job_log' = Append(job_log, "parsed")
    /\ UNCHANGED <<uuids_drawn, vector_index, candidates_store>>
    /\ UNCHANGED notJobVars

\* Lines 569-583: a fresh uuid4 names the record, which is then written.
process_resume_upload_save(u, write_ok) ==
    /\ job_pc = "save"
    /\ u \notin uuids_drawn
    /\ uuids_drawn' = uuids_drawn \cup {u}
    /\ job' = [job EXCEPT !.candidate_id = CandidateId(u),
                          !.calls = Append(@, "firestore_set")]
    /\ IF write_ok
       THEN /\ candidates_store' =
                 [candidates_store EXCEPT ![CandidateId(u)] =
                    [exists |-> TRUE, batch_tag |-> job.batch_tag,
                     recruiter_uuid |-> job.recruiter_uuid,
                     resume_gcs_url |-> job.file_name]]
            /\ job_pc' = "chunk"
            /\ job_outcome' = ""
            /\ job_log' = Append(job_log, "record_written")
       ELSE /\ JobEnds("error_save")
            /\ UNCHANGED <<candidates_store, job_log>>
    /\ UNCHANGED vector_index
    /\ UNCHANGED notJobVars

\* process_resume_upload_chunk without the return of lines 589-591.
process_resume_upload_chunk_unguarded ==
    /\ job_pc = "chunk"
    /\ job' = [job EXCEPT !.chunks = chunk_parsed_resume(job.candidate_id, job.parsed_data)]
    /\ job_log' = Append(job_log, "chunked")
    /\ job_pc' = "embed"
    /\ job_outcome' = ""
    /\ UNCHANGED <<uuids_drawn, vector_index, candidates_store>>
    /\ UNCHANGED notJobVars

\* Lines 585-596.
process_resume_upload_chunk ==
    /\ job_pc = "chunk"
    /\ LET chunks == chunk_parsed_resume(job.candidate_id, job.parsed_data)
       IN /\ job' = [job EXCEPT !.chunks = chunks]
          /\ job_log' = Append(job_log, "chunked")
          /\ IF chunks = << >> THEN JobEnds("no_chunks")
             ELSE job_pc' = "embed" /\ job_outcome' = ""
    /\ UNCHANGED <<uuids_drawn, vector_index, candidates_store>>
    /\ UNCHANGED notJobVars

\* process_resume_upload_embed without the count check of lines 602-603.
process_resume_upload_embed_unchecked(raised, surplus, first_dim) ==
    /\ job_pc = "embed"
    /\ LET texts == [i \in 1..Len(job.chunks) |-> job.chunks[i].text_content]
           embeddings == EmbeddingResponse(texts, Len(texts) + surplus, first_dim)
       IN IF raised
          THEN /\ JobEnds("error_embed")
               /\ job' = [job EXCEPT !.calls = Append(@, "get_embeddings")]
               /\ UNCHANGED job_log
          ELSE /\ job_pc' = "upsert"
               /\ job_outcome' = ""
               /\ job' = [job EXCEPT !.embeddings = embeddings,
                                     !.received = Len(embeddings),
                                     !.calls = Append(@, "get_embeddings")]
               /\ job_log' = Append(job_log, "embedded")
    /\ UNCHANGED <<uuids_drawn, vector_index, candidates_store>>
    /\ UNCHANGED notJobVars

\* Lines 598-603: get_embeddings, then the count check.  The endpoint
\* returns surplus more vectors than texts (fewer when negative).
process_resume_upload_embed(raised, surplus, first_dim) ==
    /\ job_pc = "embed"
    /\ LET texts == [i \in 1..Len(job.chunks) |-> job.chunks[i].text_content]
           embeddings == EmbeddingResponse(texts, Len(texts) + surplus, first_dim)
       IN IF raised
          THEN /\ JobEnds("error_embed")
               /\ job' = [job EXCEPT !.calls = Append(@, "get_embeddings")]
               /\ UNCHANGED job_log
          ELSE IF Len(embeddings) # Len(job.chunks)
          THEN /\ JobEnds("error_mismatch")
               /\ job' = [job EXCEPT !.embeddings = embeddings,
                                     !.received = Len(embeddings),
                                     !.calls = Append(@, "get_embeddings")]
               /\ UNCHANGED job_log
          ELSE /\ job_pc' = "upsert"
               /\ job_outcome' = ""
               /\ job' = [job EXCEPT !.embeddings = embeddings,
                                     !.received = Len(embeddings),
                                     !.calls = Append(@, "get_embeddings")]
               /\ job_log' = Append(job_log, "embedded")
    /\ UNCHANGED <<uuids_drawn, vector_index, candidates_store>>
    /\ UNCHANGED notJobVars

\* Lines 605-647: the datapoints, the single upsertDatapoints POST of
\* upsert_to_vector_search, and the success message; an exception of the
\* POST (status other than 200/201, transport error) is caught at line 644.
process_resume_upload_upsert(post_ok) ==
    /\ job_pc = "upsert"
    /\ LET chunk_ids == [i \in 1..Len(job.chunks) |-> job.chunks[i].id]
           datapoints ==
              Datapoints(chunk_ids, job.embeddings,
                         vector_restrictions(job.recruiter_uuid, job.batch_tag,
                                             job.candidate_id))
           body == RequestBody(datapoints)
       IN /\ job' = [job EXCEPT !.request = body,
                                !.upsert_attempts = job.upsert_attempts + 1,
                                !.calls = Append(@, "upsert_to_vector_search")]
          /\ IF post_ok
             THEN /\ vector_index' = IndexAfter(vector_index, body)
                  /\ job_log' = job_log \o <<"upserted", "reported_success">>
                  /\ JobEnds("success")
             ELSE /\ vector_index' = vector_index
                  /\ job_log' = job_log
                  /\ JobEnds("error_upsert")
    /\ UNCHANGED <<uuids_drawn, candidates_store>>
    /\ UNCHANGED notJobVars

\* The handler has returned; the next event may be delivered.
process_resume_upload_return ==
    /\ job_pc = "done"
    /\ job_pc' = "idle"
    /\ job' = NoJob
    /\ job_log' = << >>
    /\ job_outcome' = ""
    /\ UNCHANGED <<uuids_drawn, vector_index, candidates_store>>
    /\ UNCHANGED notJobVars

\* ============================================================== API service
SessionIds == {"s1", "s2"}
Chars == {"a", " "}
Texts == SeqsUpTo(Chars, MaxTextLen)
\* Embedding vectors have one dimension and norm 0 or 1.

DefaultChunkSize == 1200
DefaultOverlap == 200
KnnTopK == 8
EvidenceCount == 5
UploadAttempts == 3

Min(a, b) == IF a < b THEN a ELSE b
Max(a, b) == IF a > b THEN a ELSE b

\* ------------------------------------------------------------- pdf_utils.py
RECURSIVE LStrip(_)
LStrip(text) ==
    IF text # << >> /\ Head(text) = " " THEN LStrip(Tail(text)) ELSE text

RECURSIVE RStrip(_)
RStrip(text) ==
    IF text # << >> /\ text[Len(text)] = " "
    THEN RStrip(SubSeq(text, 1, Len(text) - 1)) ELSE text

Strip(text) == RStrip(LStrip(text))

\* The while loop of chunk_text from position start (0-based).
RECURSIVE ChunksFrom(_, _, _, _)
ChunksFrom(text, start, chunk_size, overlap) ==
    LET n == Len(text)
        end == Min(n, start + chunk_size)
    IN IF start >= n THEN << >>
       ELSE IF end = n THEN << SubSeq(text, start + 1, end) >>
       ELSE << SubSeq(text, start + 1, end) >>
            \o ChunksFrom(text, Max(0, end - overlap), chunk_size, overlap)

chunk_text(text, chunk_size, overlap) ==
    IF Strip(text) = << >> THEN << >>
    ELSE ChunksFrom(Strip(text), 0, chunk_size, overlap)

\* --------------------------------------------------------------- storage.py
\* upload_bytes under its retry decorator: failures is how many consecutive
\* attempts of the blob upload raise.
upload_bytes(failures) ==
    [attempts |-> Min(failures + 1, UploadAttempts),
     raised |-> failures >= UploadAttempts]

\* ------------------------------------------------------------ embeddings.py
ChunkDocId(batch_id, candidate_id, i) == <<batch_id, candidate_id, i>>

\* upsert_chunks_firestore with every document under an id the collection
\* does not hold yet.
upsert_chunks_firestore_auto_id(store, batch_id, candidate_id, chunks, vectors) ==
    LET base == Cardinality(DOMAIN store)
        ids == {ChunkDocId(batch_id, candidate_id, base + i - 1) : i \in 1..Len(chunks)}
    IN [k \in DOMAIN store \cup ids |->
          IF k \in ids
          THEN [batch_id |-> batch_id, candidate_id |-> candidate_id,
                chunk_id |-> k[3] - base, text |-> chunks[k[3] - base + 1],
                vector |-> vectors[k[3] - base + 1]]
          ELSE store[k]]

\* upsert_chunks_firestore after its length check: one batched set per
\* (chunk, vector) pair, committed together.
upsert_chunks_firestore(store, batch_id, candidate_id, chunks, vectors) ==
    LET ids == {ChunkDocId(batch_id, candidate_id, i - 1) : i \in 1..Len(chunks)}
    IN [k \in DOMAIN store \cup ids |->
          IF k \in ids
          THEN [batch_id |-> batch_id, candidate_id |-> candidate_id,
                chunk_id |-> k[3], text |-> chunks[k[3] + 1],
                vector |-> vectors[k[3] + 1]]
          ELSE store[k]]

RECURSIVE SumProd(_, _)
SumProd(a, b) ==
    IF a = << >> \/ b = << >> THEN 0
    ELSE Head(a) * Head(b) + SumProd(Tail(a), Tail(b))

\* cosine_sim; the division is by 1 for the vectors of the model.
cosine_sim(a, b) ==
    IF SumProd(a, a) = 0 \/ SumProd(b, b) = 0 THEN 0 ELSE SumProd(a, b)

IsSubstring(part, text) ==
    \E i \in 1..(Len(text) - Len(part) + 1) :
        SubSeq(text, i, i + Len(part) - 1) = part

Scored(store, k, query_vec) ==
    [batch_id |-> store[k].batch_id, candidate_id |-> store[k].candidate_id,
     chunk_id |-> store[k].chunk_id, text |-> store[k].text,
     vector |-> store[k].vector,
     _score |-> cosine_sim(query_vec, store[k].vector)]

\* knn_search_firestore: the lists it can return.  The stream's order is the
\* store's; the stable sort keeps it among equal scores, so every
\* arrangement by non-increasing score is the result for some stream order.
\* company = << >> is no company filter.
knn_search_firestore(store, batch_id, query_vec, top_k, company) ==
    LET matched == {k \in DOMAIN store :
                      /\ store[k].batch_id = batch_id
                      /\ company = << >> \/ IsSubstring(company, store[k].text)}
        sorted == {f \in ListsOf(matched) :
                     \A i, j \in 1..Cardinality(matched) :
                        i < j => Scored(store, f[i], query_vec)._score
                                   >= Scored(store, f[j], query_vec)._score}
    IN {Prefix([i \in 1..Cardinality(matched) |-> Scored(store, f[i], query_vec)], top_k) :
          f \in sorted}

\* ------------------------------------------------------------------ chat.py
\* cand_scores after the loop over top_chunks, as (candidate, score) pairs
\* in insertion order.
RECURSIVE CandScores(_)
CandScores(chunks) ==
    IF chunks = << >> THEN << >>
    ELSE LET before == CandScores(SubSeq(chunks, 1, Len(chunks) - 1))
             r == chunks[Len(chunks)]
             at == {i \in 1..Len(before) : before[i].candidate_id = r.candidate_id}
         IN IF at = {}
            THEN Append(before, [candidate_id |-> r.candidate_id,
                                 score |-> Max(0, r._score)])
            ELSE [i \in 1..Len(before) |->
                    IF i \in at
                    THEN [candidate_id |-> r.candidate_id,
                          score |-> Max(before[i].score, r._score)]
                    ELSE before[i]]

\* The candidate of the least score.
BestOf_lowest(cand_scores) ==
    IF cand_scores = << >> THEN ""
    ELSE cand_scores[CHOOSE i \in 1..Len(cand_scores) :
                       \A j \in 1..Len(cand_scores) :
                          cand_scores[i].score <= cand_scores[j].score].candidate_id

\* max(cand_scores.items(), key=score)[0], or None ("") for no scores.
BestOf(cand_scores) ==
    IF cand_scores = << >> THEN ""
    ELSE cand_scores[CHOOSE i \in 1..Len(cand_scores) :
                       /\ \A j \in 1..Len(cand_scores) :
                             cand_scores[j].score <= cand_scores[i].score
                       /\ \A j \in 1..(i - 1) :
                             cand_scores[j].score < cand_scores[i].score].candidate_id

NoChat == [recruiter_uuid |-> "", batch_tag |-> ""]
NoResult == [answer |-> "", best_candidate_id |-> ""]

\* What the generative model returns for the answer prompt.
LlmReplies == {"json", "json_null_best", "not_json", "json_not_object"}

\* answer_query from the parsed reply on (lines 75-87).
answer_data(reply, llm_best, cand_scores) ==
    [answer |-> IF reply = "not_json" THEN "raw_text" ELSE "answer",
     best_candidate_id |->
        IF reply = "json" THEN llm_best ELSE BestOf(cand_scores)]

\* chat_handler: answer_query(batch_id = batch_tag, query).  failed: a
\* model or embedding call raised; reply "json_not_object": data.get raises.
chat_handler(recruiter_uuid, batch_tag, query_vec, company, failed, reply, llm_best) ==
    /\ chat_request' = [recruiter_uuid |-> recruiter_uuid, batch_tag |-> batch_tag]
    /\ IF failed
       THEN /\ top_chunks' = << >>
            /\ chat_result' = NoResult
            /\ chat_status' = "500"
       ELSE \E results \in knn_search_firestore(resume_chunks, batch_tag, query_vec,
                                                KnnTopK, company) :
              /\ top_chunks' = Prefix(results, EvidenceCount)
              /\ IF reply = "json_not_object"
                 THEN /\ chat_result' = NoResult
                      /\ chat_status' = "500"
                 ELSE /\ chat_result' =
                           answer_data(reply, llm_best,
                                       CandScores(Prefix(results, EvidenceCount)))
                      /\ chat_status' = "200"
    /\ upload_log' = << >>
    /\ upload_status' = ""
    /\ UNCHANGED <<resume_chunks, upload_requests>>
    /\ UNCHANGED notServiceVars

\* ------------------------------------------------------- upload_resume
UploadEnds(log, status) ==
    /\ upload_log' = log
    /\ upload_status' = status

\* upload_resume.  precheck: "no_storage" (line 260), "invalid_file" (line
\* 284) or "ok"; s: the uuid4 of line 298; gcs_failures: failing attempts
\* of the blob upload; fails_at: the call that raises, if any; count: how
\* many vectors embed_texts returns.  The metadata write of lines 311-326
\* is skipped: the vertex_search module has no firestore_client attribute.
upload_resume(recruiter_uuid, batch_name, precheck, s, gcs_failures, text, fails_at, count, vector) ==
    /\ chat_request' = NoChat
    /\ top_chunks' = << >>
    /\ chat_result' = NoResult
    /\ chat_status' = ""
    /\ IF recruiter_uuid = "" \/ batch_name = "" \/ precheck = "invalid_file"
       THEN /\ UploadEnds(<< >>, "400")
            /\ UNCHANGED <<resume_chunks, upload_requests>>
       ELSE IF precheck = "no_storage"
       THEN /\ UploadEnds(<< >>, "500")
            /\ UNCHANGED <<resume_chunks, upload_requests>>
       ELSE
         LET chunks == chunk_text(text, DefaultChunkSize, DefaultOverlap)
             vectors == [i \in 1..count |-> vector]
         IN
         /\ s \notin DOMAIN upload_requests
         /\ upload_requests' =
              [k \in DOMAIN upload_requests \cup {s} |->
                 IF k = s THEN [recruiter_uuid |-> recruiter_uuid,
                                batch_name |-> batch_name]
                 ELSE upload_requests[k]]
         /\ IF upload_bytes(gcs_failures).raised
            THEN /\ UploadEnds(<< >>, "500")
                 /\ UNCHANGED resume_chunks
            ELSE IF fails_at = "extract"
            THEN /\ UploadEnds(<<"stored_bytes">>, "500")
                 /\ UNCHANGED resume_chunks
            ELSE IF chunks = << >>
            THEN /\ UNCHANGED resume_chunks
                 /\ IF fails_at = "signed_url"
                    THEN UploadEnds(<<"stored_bytes", "extracted", "chunked">>, "500")
                    ELSE UploadEnds(<<"stored_bytes", "extracted", "chunked",
                                      "reported_success">>, "201")
            ELSE IF fails_at = "embed"
            THEN /\ UploadEnds(<<"stored_bytes", "extracted", "chunked">>, "500")
                 /\ UNCHANGED resume_chunks
            ELSE IF Len(chunks) # Len(vectors) \/ fails_at = "commit"
            THEN /\ UploadEnds(<<"stored_bytes", "extracted", "chunked", "embedded">>, "500")
                 /\ UNCHANGED resume_chunks
            ELSE /\ resume_chunks' =
                      upsert_chunks_firestore(resume_chunks, batch_name, s, chunks, vectors)
                 /\ IF fails_at = "signed_url"
                    THEN UploadEnds(<<"stored_bytes", "extracted", "chunked",
                                      "embedded", "upserted">>, "500")
                    ELSE UploadEnds(<<"stored_bytes", "extracted", "chunked",
                                      "embedded", "upserted", "reported_success">>, "201")
    /\ UNCHANGED notServiceVars

\* ------------------------------------------- direct calls of the upserts
UpsertFunctions == {"upsert_chunks_firestore", "upsert_to_vector_search"}

NoUpsert(fn) ==
    [fn |-> fn, args |-> << >>, raised |-> FALSE, calls |-> 0, repeated |-> FALSE]

Called(fn, args, raised) ==
    [fn |-> fn, args |-> args, raised |-> raised, calls |-> 1,
     repeated |-> /\ last_upsert.calls > 0
                  /\ ~last_upsert.raised
                  /\ last_upsert.args = args]

\* upsert_chunks_firestore as a whole: the length check, the batch, and
\* the commit, which may raise.
upsert_chunks_firestore_call(batch_id, candidate_id, chunks, vectors, commit_ok) ==
    /\ last_upsert.fn = "upsert_chunks_firestore"
    /\ LET raised == Len(chunks) # Len(vectors) \/ ~commit_ok
       IN /\ last_upsert' =
               Called("upsert_chunks_firestore",
                      <<batch_id, candidate_id, chunks, vectors>>, raised)
          /\ resume_chunks' =
               IF raised THEN resume_chunks
               ELSE upsert_chunks_firestore(resume_chunks, batch_id, candidate_id,
                                            chunks, vectors)
    /\ UNCHANGED vector_index
    /\ UNCHANGED notUpsertVars

\* upsert_to_vector_search as a whole.
upsert_to_vector_search_call(datapoints, post_ok) ==
    /\ last_upsert.fn = "upsert_to_vector_search"
    /\ LET raised == datapoints # << >> /\ ~post_ok
       IN /\ last_upsert' = Called("upsert_to_vector_search", <<datapoints>>, raised)
          /\ vector_index' =
               IF raised \/ datapoints = << >> THEN vector_index
               ELSE IndexAfter(vector_index, RequestBody(datapoints))
    /\ UNCHANGED resume_chunks
    /\ UNCHANGED notUpsertVars

\* ------------------------------------------------ _extract_first_balanced_json
\* A text is the sequence of its characters.  The function returns a
\* substring or None: found tells which.
NoObject == [found |-> FALSE, object |-> << >>]

Found(object) == [found |-> TRUE, object |-> object]

\* s.find('{'): the first index of '{', 0 when there is none.
FindBrace(s) ==
    IF \E i \in 1..Len(s) : s[i] = "{"
    THEN CHOOSE i \in 1..Len(s) : s[i] = "{" /\ \A j \in 1..(i - 1) : s[j] # "{"
    ELSE 0

\* The substring from the first '{' to the first '}' after it.
_extract_first_balanced_json_first_close(s) ==
    LET start == FindBrace(s)
    IN IF start = 0 \/ ~(\E i \in start..Len(s) : s[i] = "}") THEN NoObject
       ELSE Found(SubSeq(s, start,
                         CHOOSE i \in start..Len(s) :
                            s[i] = "}" /\ \A j \in start..(i - 1) : s[j] # "}"))

\* The loop of lines 176-196 from index i on.
RECURSIVE BalancedFrom(_, _, _, _, _, _)
BalancedFrom(s, start, i, in_string, escape_next, stack) ==
    IF i > Len(s) THEN NoObject
    ELSE IF escape_next THEN BalancedFrom(s, start, i + 1, in_string, FALSE, stack)
    ELSE IF s[i] = "\\" THEN BalancedFrom(s, start, i + 1, in_string, TRUE, stack)
    ELSE IF s[i] = "\"" THEN BalancedFrom(s, start, i + 1, ~in_string, FALSE, stack)
    ELSE IF ~in_string /\ s[i] = "{"
    THEN BalancedFrom(s, start, i + 1, in_string, FALSE, stack + 1)
    ELSE IF ~in_string /\ s[i] = "}"
    THEN IF stack - 1 = 0 THEN Found(SubSeq(s, start, i))
         ELSE BalancedFrom(s, start, i + 1, in_string, FALSE, stack - 1)
    ELSE BalancedFrom(s, start, i + 1, in_string, FALSE, stack)

_extract_first_balanced_json(s) ==
    LET start == FindBrace(s)
    IN IF start = 0 THEN NoObject
       ELSE BalancedFrom(s, start, start, FALSE, FALSE, 0)

\* ------------------------------------------- direct calls of the helpers
\* A behaviour calls one helper once: called holds the call, returned what it
\* gave back.
NoCall == [fn |-> "", args |-> << >>]

Call(fn, args) == [fn |-> fn, args |-> args]

\* extract_candidate_ids(chunk_ids): the list made of the set, in any order.
extract_candidate_ids_call(chunk_ids) ==
    /\ called = NoCall
    /\ called' = Call("extract_candidate_ids", <<chunk_ids>>)
    /\ returned' \in ListsOf(extract_candidate_ids(chunk_ids))
    /\ UNCHANGED notHelperVars

\* chunk_parsed_resume(candidate_id, parsed_data).
chunk_parsed_resume_call(candidate_id, parsed_data) ==
    /\ called = NoCall
    /\ called' = Call("chunk_parsed_resume", <<candidate_id, parsed_data>>)
    /\ returned' = chunk_parsed_resume(candidate_id, parsed_data)
    /\ UNCHANGED notHelperVars

\* _extract_first_balanced_json(s).
_extract_first_balanced_json_call(s) ==
    /\ called = NoCall
    /\ called' = Call("_extract_first_balanced_json", <<s>>)
    /\ returned' = _extract_first_balanced_json(s)
    /\ UNCHANGED notHelperVars

\* answer_query(batch_id, query) called directly (chat.py 48-87).  failed: a
\* model or embedding call raises; reply "json_not_object": json.loads gives
\* a value without .get, so line 83 raises.  returned holds the function's
\* locals top_chunks and cand_scores beside what it returns.
NoAnswer == [raised |-> FALSE, data |-> NoResult, top_chunks |-> << >>,
             cand_scores |-> << >>]

answer_query_call(batch_id, query_vec, company, failed, reply, llm_best) ==
    /\ called = NoCall
    /\ called' = Call("answer_query",
                      [batch_id |-> batch_id, query_vec |-> query_vec,
                       company |-> company, failed |-> failed, reply |-> reply,
                       llm_best |-> llm_best])
    /\ IF failed
       THEN returned' = [NoAnswer EXCEPT !.raised = TRUE]
       ELSE \E results \in knn_search_firestore(resume_chunks, batch_id, query_vec,
                                                KnnTopK, company) :
              LET top_chunks_ == Prefix(results, EvidenceCount)
                  cand_scores == CandScores(top_chunks_)
              IN returned' =
                   [raised |-> reply = "json_not_object",
                    data |-> IF reply = "json_not_object" THEN NoResult
                             ELSE answer_data(reply, llm_best, cand_scores),
                    top_chunks |-> top_chunks_,
                    cand_scores |-> cand_scores]
    /\ UNCHANGED notHelperVars

\* ------------------------------------------------- the lazy initialisers
\* Request threads: the handlers of firestore.py are plain functions, which
\* the server runs on a pool of threads, so two requests may be inside
\* _init_firestore_client at once; nothing in the program takes a lock.
\* A thread's request is the initialiser it is in (fn), its position (pc)
\* and how its latest call ended (outcome: "returned" or "raised").
Threads == {"t1", "t2"}

Initialisers == {"_init_firestore_client", "initialize_globals"}

NoRequest == [fn |-> "", pc |-> "idle", outcome |-> ""]

RequestEnds(t, outcome) ==
    requests' = [requests EXCEPT ![t].pc = "idle", ![t].outcome = outcome]

\* A request thread calls an initialiser.
request_call(t, fn) ==
    /\ requests[t].pc = "idle"
    /\ requests' = [requests EXCEPT ![t] = [fn |-> fn, pc |-> "check", outcome |-> ""]]
    /\ UNCHANGED <<globalVars, _db, clients_created>>
    /\ UNCHANGED notThreadVars

\* firestore.py lines 74-75: the test of _db.
_init_firestore_client_check(t) ==
    /\ requests[t].fn = "_init_firestore_client"
    /\ requests[t].pc = "check"
    /\ IF _db # 0
       THEN RequestEnds(t, "returned")
       ELSE requests' = [requests EXCEPT ![t].pc = "create"]
    /\ UNCHANGED <<globalVars, _db, clients_created>>
    /\ UNCHANGED notThreadVars

\* firestore.py lines 77-93: the imports, the client made and assigned to
\* _db; any exception becomes an HTTPException.
_init_firestore_client_create(t, ok) ==
    /\ requests[t].fn = "_init_firestore_client"
    /\ requests[t].pc = "create"
    /\ IF ok
       THEN /\ clients_created' = clients_created + 1
            /\ _db' = clients_created + 1
            /\ RequestEnds(t, "returned")
       ELSE /\ RequestEnds(t, "raised")
            /\ UNCHANGED <<_db, clients_created>>
    /\ UNCHANGED globalVars
    /\ UNCHANGED notThreadVars

\* vertex_search.py lines 52-54: the test of the two globals.
initialize_globals_check(t) ==
    /\ requests[t].fn = "initialize_globals"
    /\ requests[t].pc = "check"
    /\ IF matching_engine_endpoint /\ embedding_model
       THEN RequestEnds(t, "returned")
       ELSE requests' = [requests EXCEPT ![t].pc = "create"]
    /\ UNCHANGED <<globalVars, _db, clients_created>>
    /\ UNCHANGED notThreadVars

\* vertex_search.py lines 56-94.
initialize_globals_create(t, env) ==
    /\ requests[t].fn = "initialize_globals"
    /\ requests[t].pc = "create"
    /\ InitialiseGlobals(env)
    /\ RequestEnds(t, IF InitialiseGlobalsRaises(env) THEN "raised" ELSE "returned")
    /\ UNCHANGED <<_db, clients_created>>
    /\ UNCHANGED notThreadVars

\* ------------------------------------------------------ the upload service
\* upload.py.  A path is <<recruiter_uuid, batch_name, safe_name>>, written
\* recruiter_uuid/batch_name/safe_name by line 85.
RecruiterIds == {"", "r1"}
BatchNames == {"", "b1"}
OriginalNames == {"a.pdf", "b/a.pdf"}
Contents == {"c1", "c2"}

\* Line 58: ".." removed, "/" replaced by "_".
_secure_filename(name) == IF name = "b/a.pdf" THEN "b_a.pdf" ELSE name

SafeNames == {_secure_filename(n) : n \in OriginalNames}
Paths == (RecruiterIds \ {""}) \X (BatchNames \ {""}) \X SafeNames

NoBlob == [content |-> "", metadata |-> FALSE]

\* What the storage service does on one request: the upload succeeds or
\* fails, so do the metadata patch and the delete.
StorageOutcomes == [upload_ok : BOOLEAN, patch_ok : BOOLEAN, delete_ok : BOOLEAN]

NoUploadResponse == [status |-> 0, gcs_path |-> << >>, existed |-> FALSE, before |-> NoBlob]

\* The answer to a request: its status and path, and for reference whether
\* an object was at the path when the request arrived, and which.
UploadResponse(status, path) ==
    [status |-> status, gcs_path |-> path,
     existed |-> bucket[path] # NoBlob, before |-> bucket[path]]

\* Lines 113-119: the handler of every Exception raised in lines 88-111,
\* the HTTPException of line 91 among them: delete the object at the path
\* (a failure of the delete is ignored), then answer 500.
upload_resume_except(path, written, out) ==
    /\ bucket' = [bucket EXCEPT ![path] = IF out.delete_ok THEN NoBlob ELSE written]
    /\ upload_response' = UploadResponse(500, path)

\* Lines 62-119: upload_resume of upload.py.
upload_service_upload_resume(recruiter_uuid, batch_name, original_filename, content, out) ==
    /\ IF recruiter_uuid = "" \/ batch_name = ""
       THEN /\ upload_response' = [NoUploadResponse EXCEPT !.status = 400]
            /\ UNCHANGED bucket
       ELSE LET gcs_path == <<recruiter_uuid, batch_name, _secure_filename(original_filename)>>
                uploaded == [content |-> content, metadata |-> FALSE]
            IN  IF bucket[gcs_path] # NoBlob
                THEN upload_resume_except(gcs_path, bucket[gcs_path], out)
                ELSE IF ~out.upload_ok
                THEN upload_resume_except(gcs_path, NoBlob, out)
                ELSE IF ~out.patch_ok
                THEN upload_resume_except(gcs_path, uploaded, out)
                ELSE /\ bucket' = [bucket EXCEPT ![gcs_path] = [uploaded EXCEPT !.metadata = TRUE]]
                     /\ upload_response' = UploadResponse(201, gcs_path)
    /\ UNCHANGED notStorageVars

\* --------------------------------------------------------- specifications
EmbedOutcomes == {"ok", "TypeError", "Exception"}

InitGlobals ==
    /\ matching_engine_endpoint = FALSE
    /\ DEPLOYMENT_ID = FALSE
    /\ embedding_model = FALSE
    /\ _credentials = FALSE

InitCalls ==
    /\ fn_pc = "idle"
    /\ fn_args = NoArgs
    /\ fn_attempts = << >>
    /\ fn_result = << >>
    /\ fn_error = ""
    /\ sc_pc = "idle"
    /\ sc_args = NoScArgs
    /\ sc_chunk_ids = << >>
    /\ sc_result = << >>
    /\ sc_fetched = << >>
    /\ sc_retried = FALSE

EmptyStore == [c \in CandidateIds |-> NoDoc]

InitHelpers ==
    /\ called = NoCall
    /\ returned = << >>

InitStorage ==
    /\ bucket = [p \in Paths |-> NoBlob]
    /\ upload_response = NoUploadResponse

InitThreads ==
    /\ _db = 0
    /\ clients_created = 0
    /\ requests = [t \in Threads |-> NoRequest]

InitApi ==
    /\ resume_chunks = << >>
    /\ upload_requests = << >>
    /\ upload_log = << >>
    /\ upload_status = ""
    /\ chat_request = NoChat
    /\ top_chunks = << >>
    /\ chat_result = NoResult
    /\ chat_status = ""

InitJob ==
    /\ job_pc = "idle"
    /\ job = NoJob
    /\ job_log = << >>
    /\ job_outcome = ""
    /\ uuids_drawn = {}
    /\ vector_index = << >>

\* The query orchestrator called directly, against every kind of response.
InitSearch ==
    /\ InitGlobals
    /\ InitCalls
    /\ InitJob
    /\ InitApi
    /\ last_upsert = NoUpsert("")
    /\ InitHelpers
    /\ InitThreads
    /\ InitStorage
    /\ candidates_store = EmptyStore

NextSearch ==
    \/ \E r \in Recruiters \cup {""}, b \in BatchTags \cup {""}, k \in TopKs,
          env \in InitEnvs : find_neighbor_ids_call(r, b, k, env)
    \/ \E e \in EmbedOutcomes : find_neighbor_ids_enter(e)
    \/ \E o \in Outcomes, resp \in Responses : StrategyA(o, resp)
    \/ \E o \in Outcomes, resp \in Responses : StrategyB(o, resp)
    \/ \E o \in Outcomes, resp \in Responses : StrategyC(o, resp)
    \/ find_neighbor_ids_return

SpecSearch == InitSearch /\ [][NextSearch]_vars

\* search_candidates end to end.  What the reducer sees of a search is the id
\* list it returned, so the responses are the well-formed ones: every id list
\* of up to MaxNeighbors ids can still come back.
IdResponses ==
    [shape : {"list"},
     neighbors : SeqsUpTo([kind : {"nbr"}, id : IndexChunkIds], MaxNeighbors)]

\* The index endpoint is reachable; a deployed index may be missing.
ReduceEnvs == {env \in InitEnvs : env.creds_ok /\ env.endpoint_ok}

InitReduce ==
    /\ InitGlobals
    /\ InitCalls
    /\ InitJob
    /\ InitApi
    /\ last_upsert = NoUpsert("")
    /\ InitHelpers
    /\ InitThreads
    /\ InitStorage
    /\ candidates_store \in SearchStores

NextReduce ==
    \/ \E r \in Recruiters \cup {""}, b \in BatchTags \cup {""}, k \in TopKs,
          n \in SeqsUpTo(IndexChunkIds, MaxNeighbors), env \in ReduceEnvs :
          search_candidates_start(r, b, k, n, env)
    \/ \E e \in EmbedOutcomes : find_neighbor_ids_enter(e)
    \/ \E o \in {"runtime", "ok"}, resp \in IdResponses : StrategyA(o, resp)
    \/ \E o \in {"runtime", "ok"}, resp \in IdResponses : StrategyB(o, resp)
    \/ \E o \in {"runtime", "ok"}, resp \in IdResponses : StrategyC(o, resp)
    \/ search_candidates_older_signature
    \/ \E f \in SUBSET CandidateIds, c \in BOOLEAN : search_candidates_reduce(f, c)
    \/ search_candidates_return

SpecReduce == InitReduce /\ [][NextReduce]_vars

\* The ingestion function, one event at a time.  The resumes parsed are those
\* with a summary and work experience only.
IngestResumes ==
    {p \in ParsedResumes : p.skills = << >> /\ p.education = << >> /\ p.projects = << >>}

InitIngest ==
    /\ InitGlobals
    /\ InitCalls
    /\ InitJob
    /\ InitApi
    /\ last_upsert = NoUpsert("")
    /\ InitHelpers
    /\ InitThreads
    /\ InitStorage
    /\ candidates_store = EmptyStore

NextIngest ==
    \/ \E f \in FileNames \cup {<< >>, <<"a.pdf">>} : process_resume_upload_start(f)
    \/ \E t \in {"text", "empty", "raise"} : process_resume_upload_extract(t)
    \/ \E r \in BOOLEAN, p \in IngestResumes : process_resume_upload_parse(r, p)
    \/ \E u \in Uuids, w \in BOOLEAN : process_resume_upload_save(u, w)
    \/ process_resume_upload_chunk
    \/ \E r \in BOOLEAN, d \in {"index_dim", "other_dim"}, c \in {-1, 0, 1} :
          process_resume_upload_embed(r, c, d)
    \/ \E ok \in BOOLEAN : process_resume_upload_upsert(ok)
    \/ process_resume_upload_return

SpecIngest == InitIngest /\ [][NextIngest]_vars

\* The ingestion job with the parser's steps, for one well-formed path.
NextParse ==
    \/ process_resume_upload_start(<<"r1", "X", "a.pdf">>)
    \/ process_resume_upload_extract("text")
    \/ \E reply \in GeminiReplies : process_resume_upload_parse_reply(reply)
    \/ \E u \in Uuids, w \in BOOLEAN : process_resume_upload_save(u, w)
    \/ process_resume_upload_chunk
    \/ \E r \in BOOLEAN, c \in {-1, 0} : process_resume_upload_embed(r, c, "index_dim")
    \/ \E ok \in BOOLEAN : process_resume_upload_upsert(ok)
    \/ process_resume_upload_return

SpecParse == InitIngest /\ [][NextParse]_vars

\* The API service: uploads and chats, one request at a time.
InitService ==
    /\ InitGlobals
    /\ InitCalls
    /\ InitJob
    /\ InitApi
    /\ candidates_store = EmptyStore
    /\ last_upsert = NoUpsert("")
    /\ InitHelpers
    /\ InitThreads
    /\ InitStorage

\* What can happen to an accepted upload.  A failing call leaves the inputs
\* of the later calls unused, so each failure is drawn with one text.
Run(gcs_failures, text, fails_at, count, vector) ==
    [gcs_failures |-> gcs_failures, text |-> text, fails_at |-> fails_at,
     count |-> count, vector |-> vector]

DocVectors == {<<-1>>, <<1>>}
QueryVectors == {<<0>>, <<1>>}

UploadRuns ==
    {Run(UploadAttempts, << >>, "none", 0, <<1>>),
     Run(0, << >>, "extract", 0, <<1>>),
     Run(0, <<"a">>, "embed", 0, <<1>>),
     Run(0, <<"a">>, "commit", 1, <<1>>),
     Run(0, <<"a">>, "none", 0, <<1>>),
     Run(0, <<"a">>, "none", 2, <<1>>)}
    \cup {Run(g, t, f, 1, v) :
            g \in {0, UploadAttempts - 1}, t \in Texts,
            f \in {"none", "signed_url"}, v \in DocVectors}

\* What a chat request meets: a failing model or embedding call, or a reply.
ChatRuns ==
    {[failed |-> TRUE, reply |-> "json", best |-> "s1"]}
    \cup {[failed |-> FALSE, reply |-> r, best |-> "s1"] : r \in LlmReplies}
    \cup {[failed |-> FALSE, reply |-> "json", best |-> "s2"]}

\* The requests upload_resume turns away before it draws a session id.
RejectedForms ==
    {f \in [recruiter_uuid : Recruiters \cup {""}, batch_name : BatchTags \cup {""},
            precheck : {"ok", "no_storage", "invalid_file"}] :
        f.recruiter_uuid = "" \/ f.batch_name = "" \/ f.precheck # "ok"}

NextService ==
    \/ \E f \in RejectedForms :
          upload_resume(f.recruiter_uuid, f.batch_name, f.precheck,
                        "s1", 0, << >>, "none", 0, <<1>>)
    \/ \E r \in Recruiters, b \in BatchTags, s \in SessionIds, u \in UploadRuns :
          upload_resume(r, b, "ok", s, u.gcs_failures, u.text, u.fails_at,
                        u.count, u.vector)
    \/ \E r \in Recruiters, b \in BatchTags, q \in QueryVectors,
          company \in {<< >>, <<"a", "a">>}, c \in ChatRuns :
          chat_handler(r, b, q, company, c.failed, c.reply, c.best)

SpecService == InitService /\ [][NextService]_vars

\* answer_query called once against a resume_chunks collection that holds
\* up to MaxStoredChunks chunks of each of two candidates of batch X, as
\* upsert_chunks_firestore leaves them.
StoredChunks ==
    {cv \in [chunks : SeqsUpTo({<<"a">>}, MaxStoredChunks),
             vectors : SeqsUpTo(DocVectors, MaxStoredChunks)] :
        Len(cv.chunks) = Len(cv.vectors)}

ChatStores ==
    {upsert_chunks_firestore(
        upsert_chunks_firestore(<< >>, "X", "s1", a.chunks, a.vectors),
        "X", "s2", b.chunks, b.vectors) : a \in StoredChunks, b \in StoredChunks}

InitChat ==
    /\ InitGlobals
    /\ InitCalls
    /\ InitJob
    /\ resume_chunks \in ChatStores
    /\ upload_requests = << >>
    /\ upload_log = << >>
    /\ upload_status = ""
    /\ chat_request = NoChat
    /\ top_chunks = << >>
    /\ chat_result = NoResult
    /\ chat_status = ""
    /\ candidates_store = EmptyStore
    /\ last_upsert = NoUpsert("")
    /\ InitHelpers
    /\ InitThreads
    /\ InitStorage

NextChat ==
    \/ \E b \in BatchTags, q \in QueryVectors, company \in {<< >>, <<"a", "a">>},
          c \in ChatRuns :
          answer_query_call(b, q, company, c.failed, c.reply, c.best)

SpecChat == InitChat /\ [][NextChat]_vars

\* chunk_text called directly and run one iteration of its loop at a time.
\* The call's position is kept in returned: pc is "loop" while the while
\* loop of lines 25-30 runs and "done" once line 31 returns chunks; start is
\* the loop's variable and prev_start its value one iteration before (-1
\* before the first).
ChunkedTexts == SeqsUpTo(Chars, MaxChunkedLen)
ChunkSizes == 1..3
Overlaps == 0..2

\* pdf_utils.py lines 18-24.
chunk_text_call(text, chunk_size, overlap) ==
    /\ called = NoCall
    /\ called' = Call("chunk_text", <<text, chunk_size, overlap>>)
    /\ returned' = [pc |-> IF Strip(text) = << >> THEN "done" ELSE "loop",
                    start |-> 0, prev_start |-> -1, chunks |-> << >>]
    /\ UNCHANGED notHelperVars

\* pdf_utils.py lines 25-30: one iteration.
chunk_text_loop ==
    /\ called.fn = "chunk_text"
    /\ returned.pc = "loop"
    /\ Len(returned.chunks) < MaxIterations
    /\ LET text == Strip(called.args[1])
           chunk_size == called.args[2]
           overlap == called.args[3]
           n == Len(text)
           start == returned.start
           end == Min(n, start + chunk_size)
           chunks == Append(returned.chunks, SubSeq(text, start + 1, end))
       IN  returned' =
             IF end = n
             THEN [returned EXCEPT !.chunks = chunks, !.pc = "done"]
             ELSE [pc |-> IF Max(0, end - overlap) < n THEN "loop" ELSE "done",
                   start |-> Max(0, end - overlap),
                   prev_start |-> start,
                   chunks |-> chunks]
    /\ UNCHANGED called
    /\ UNCHANGED notHelperVars

\* The upload service answering any sequence of upload requests.
InitUploads ==
    /\ InitGlobals
    /\ InitCalls
    /\ InitJob
    /\ InitApi
    /\ candidates_store = EmptyStore
    /\ last_upsert = NoUpsert("")
    /\ InitHelpers
    /\ InitThreads
    /\ InitStorage

NextUploads ==
    \E r \in RecruiterIds, b \in BatchNames, n \in OriginalNames,
       c \in Contents, out \in StorageOutcomes :
          upload_service_upload_resume(r, b, n, c, out)

SpecUploads == InitUploads /\ [][NextUploads]_vars

\* Two request threads calling the initialisers, any number of times.
InitInitialisers ==
    /\ InitGlobals
    /\ InitCalls
    /\ InitJob
    /\ InitApi
    /\ candidates_store = EmptyStore
    /\ last_upsert = NoUpsert("")
    /\ InitHelpers
    /\ InitThreads
    /\ InitStorage

NextInitialisers ==
    \/ \E t \in Threads, fn \in Initialisers : request_call(t, fn)
    \/ \E t \in Threads : _init_firestore_client_check(t)
    \/ \E t \in Threads, ok \in BOOLEAN : _init_firestore_client_create(t, ok)
    \/ \E t \in Threads : initialize_globals_check(t)
    \/ \E t \in Threads, env \in InitEnvs : initialize_globals_create(t, env)

SpecInitialisers == InitInitialisers /\ [][NextInitialisers]_vars

\* The two upsert functions called directly, any arguments, any number of
\* times; one behaviour calls one of the two.
UpsertChunks == SeqsUpTo({<<"a">>}, MaxChunks)
UpsertVectors == SeqsUpTo({<<1>>, <<-1>>}, MaxChunks)
UpsertDatapoints ==
    SeqsUpTo([datapoint_id : {<<"cnd", "u1", "summary">>, <<"cnd", "u1", "work", "0">>},
              feature_vector : {Vector(<<"summary">>, "index_dim")},
              restricts : {vector_restrictions(r, "X", CandidateId("u1")) : r \in Recruiters}],
             MaxChunks)

InitUpsert ==
    /\ InitGlobals
    /\ InitCalls
    /\ InitJob
    /\ InitApi
    /\ candidates_store = EmptyStore
    /\ last_upsert \in {NoUpsert(fn) : fn \in UpsertFunctions}
    /\ InitHelpers
    /\ InitThreads
    /\ InitStorage

NextUpsert ==
    \/ \E b \in {"X"}, c \in SessionIds, chunks \in UpsertChunks,
          vectors \in UpsertVectors, ok \in BOOLEAN :
          upsert_chunks_firestore_call(b, c, chunks, vectors, ok)
    \/ \E datapoints \in UpsertDatapoints, ok \in BOOLEAN :
          upsert_to_vector_search_call(datapoints, ok)

SpecUpsert == InitUpsert /\ [][NextUpsert]_vars

\* The helper functions called directly, any arguments.
\* Every id chunk_parsed_resume gives a record, ids of another prefix, and
\* ids of fewer parts.
ChunkerIds ==
    UNION {{chunk_parsed_resume(c, p)[i].id :
              i \in 1..Len(chunk_parsed_resume(c, p))} :
           c \in CandidateIds, p \in ParsedResumes}

HelperChunkIds ==
    ChunkerIds \cup {<<"doc", "u1", "summary">>, <<"doc", "u1", "work", "0">>,
                     <<"cnd">>, <<"u1">>}

\* Records of up to MaxEntries + 1 entries a section, so that a section has
\* a second ordinal.
HelperResumes ==
    [name : {"n"}, summary : {"", "s"}, skills : SeqsUpTo({"k"}, MaxEntries + 1),
     work_experience : SeqsUpTo({"j1", "j2"}, MaxEntries + 1),
     education : SeqsUpTo({"e"}, MaxEntries + 1),
     projects : SeqsUpTo({"p"}, MaxEntries + 1)]

\* Texts for the extractor: every text of up to MaxJsonLen characters over
\* the characters the scan tells apart, and some longer ones, the first
\* being the example of the function's contract.
JsonChars == {"{", "}", "\"", "\\", "a"}

ExampleText ==
    <<"H", "e", "r", "e", " ", "i", "s", " ", "d", "a", "t", "a", ":", " ",
      "{", "\"", "a", "\"", ":", " ", "\"", "c", "o", "n", "t", "a", "i",
      "n", "s", " ", "a", " ", "}", " ", "b", "r", "a", "c", "e", "\"",
      ",", " ", "\"", "b", "\"", ":", " ", "[", "1", ",", "2", "]", "}",
      " ", "t", "r", "a", "i", "l", "i", "n", "g", " ", "t", "e", "x", "t">>

JsonExamples ==
    {ExampleText,
     <<"{", "\"", "\\", "\"", "}", "\"", "}">>,
     <<"{", "\"", "a", "\\", "\\", "\"", "}">>,
     <<"a", "{", "\"", "{", "\"", "}", "a", "}">>}

JsonTexts == SeqsUpTo(JsonChars, MaxJsonLen) \cup JsonExamples

InitHelperCalls ==
    /\ InitGlobals
    /\ InitCalls
    /\ InitJob
    /\ InitApi
    /\ candidates_store = EmptyStore
    /\ last_upsert = NoUpsert("")
    /\ InitHelpers
    /\ InitThreads
    /\ InitStorage

NextHelperCalls ==
    \/ \E ids \in SeqsUpTo(HelperChunkIds, MaxNeighbors) :
          extract_candidate_ids_call(ids)
    \/ \E c \in CandidateIds, p \in HelperResumes : chunk_parsed_resume_call(c, p)
    \/ \E s \in JsonTexts : _extract_first_balanced_json_call(s)

SpecHelpers == InitHelperCalls /\ [][NextHelperCalls]_vars

\* chunk_text called once with any text, chunk_size and overlap.
NextChunking ==
    \/ \E text \in ChunkedTexts, chunk_size \in ChunkSizes, overlap \in Overlaps :
          chunk_text_call(text, chunk_size, overlap)
    \/ chunk_text_loop

SpecChunking == InitHelperCalls /\ [][NextChunking]_vars

\* ================================================================ claims
StrategyOrder == <<"A", "B", "C">>

ParsedBy(a) ==
    IF a.strategy = "A" THEN _parse_find_neighbors_response(a.response)
    ELSE IF a.strategy = "B" THEN _parse_match_response(a.response)
    ELSE _parse_rest_response(a.response)

\* A response every element of which is a neighbour carrying an id.
AllIds(response) ==
    /\ response.shape = "list"
    /\ \A i \in 1..Len(response.neighbors) : HasId(response.neighbors[i])

\* C1: within one find_neighbor_ids call the strategies are attempted in the
\* order A, B, C, each at most once; a strategy is attempted only after every
\* earlier one raised (capability or runtime error alike); the call returns
\* exactly when some strategy did not raise, and then returns the id list of
\* that first non-raising strategy (its ids in response order when every
\* neighbour carries one); it raises after attempts only when all three raised.
C1_StrategyOrder ==
    /\ Len(fn_attempts) <= 3
    /\ \A i \in 1..Len(fn_attempts) :
         /\ fn_attempts[i].strategy = StrategyOrder[i]
         /\ i < Len(fn_attempts) => fn_attempts[i].raised
    /\ fn_pc \in {"B", "C"} =>
         /\ Len(fn_attempts) = (IF fn_pc = "B" THEN 1 ELSE 2)
         /\ fn_attempts[Len(fn_attempts)].raised
    /\ fn_pc = "returned" =>
         /\ Len(fn_attempts) >= 1
         /\ LET a == fn_attempts[Len(fn_attempts)]
            IN /\ ~a.raised
               /\ fn_result = ParsedBy(a)
               /\ AllIds(a.response) =>
                    /\ Len(fn_result) = Len(a.response.neighbors)
                    /\ \A i \in 1..Len(fn_result) :
                         fn_result[i] = a.response.neighbors[i].id
    /\ (fn_pc = "raised" /\ Len(fn_attempts) > 0) =>
         /\ Len(fn_attempts) = 3
         /\ \A i \in 1..3 : fn_attempts[i].raised

\* A and B raised capability errors and C yielded two ids, which the call
\* returned.
C1_Witness ==
    /\ fn_pc = "returned"
    /\ Len(fn_attempts) = 3
    /\ fn_attempts[1].sent = "unsent"
    /\ fn_attempts[2].sent = "unsent"
    /\ fn_result = << <<"cnd", "u1", "summary">>, <<"cnd", "u2", "summary">> >>

\* The ids a response reports, in order; a malformed response reports none.
ReportedIds(response) == MapIds(SelectSeq(response.neighbors, HasId))

\* C2: a find_neighbor_ids call in which all three strategies raised ends
\* raising, and a list is returned only as the complete id list reported by
\* the response of a strategy that did not raise.
C2_NoGuessedResult ==
    /\ (Len(fn_attempts) = 3 /\ \A i \in 1..3 : fn_attempts[i].raised) =>
         fn_pc = "raised"
    /\ fn_pc = "returned" =>
         \E i \in 1..Len(fn_attempts) :
            /\ ~fn_attempts[i].raised
            /\ fn_attempts[i].response.shape # "malformed"
            /\ fn_result = ReportedIds(fn_attempts[i].response)

\* C3: every request a strategy sends carries the batch_tag and the
\* recruiter_uuid given to the search as allow-list filters.
C3_FiltersOnEveryRequest ==
    \A i \in 1..Len(fn_attempts) :
       fn_attempts[i].sent = "sent" =>
          /\ fn_args.batch_tag # "" =>
               <<"batch_tag", fn_args.batch_tag>> \in fn_attempts[i].filters
          /\ fn_args.recruiter_uuid # "" =>
               <<"recruiter_uuid", fn_args.recruiter_uuid>> \in fn_attempts[i].filters

\* C4: every record search_candidates returns is stored with the batch_tag
\* and the recruiter_uuid the call was given, for each of the two that was
\* given (non-empty), whatever chunk ids the index returned.
C4_FilterReverified ==
    sc_pc = "done" =>
       \A i \in 1..Len(sc_result) :
          LET stored == candidates_store[sc_result[i].candidate_id]
          IN /\ stored.exists
             /\ sc_args.batch_tag # "" => stored.batch_tag = sc_args.batch_tag
             /\ sc_args.recruiter_uuid # "" =>
                  stored.recruiter_uuid = sc_args.recruiter_uuid

\* The index admitted chunks of two stored records; the one stored under
\* another batch was dropped and the other returned.
C4_Witness ==
    /\ sc_pc = "done"
    /\ sc_args.batch_tag # ""
    /\ Len(sc_result) = 1
    /\ \E c \in extract_candidate_ids(sc_chunk_ids) :
          /\ candidates_store[c].exists
          /\ candidates_store[c].batch_tag # sc_args.batch_tag
          /\ (sc_args.recruiter_uuid = ""
                \/ candidates_store[c].recruiter_uuid = sc_args.recruiter_uuid)

\* C5: every chunk answer_query uses as evidence for a chat request that is
\* answered was uploaded with the recruiter_uuid and under the batch name
\* that the request carries.
C5_EvidenceOfRequestedTenantAndBatch ==
    chat_status = "200" =>
       \A i \in 1..Len(top_chunks) :
          LET uploaded == upload_requests[top_chunks[i].candidate_id]
          IN /\ uploaded.recruiter_uuid = chat_request.recruiter_uuid
             /\ uploaded.batch_name = chat_request.batch_tag

\* The datapoint carries namespace with an allow-list of exactly value.
HasTag(datapoint, namespace, value) ==
    \E r \in 1..Len(datapoint.restricts) :
       /\ datapoint.restricts[r].namespace = namespace
       /\ datapoint.restricts[r].allowList = <<value>>

TaggedFor(datapoint, candidate_id) ==
    /\ candidates_store[candidate_id].exists
    /\ Len(datapoint.restricts) = 3
    /\ HasTag(datapoint, "recruiter_uuid", candidates_store[candidate_id].recruiter_uuid)
    /\ HasTag(datapoint, "batch_tag", candidates_store[candidate_id].batch_tag)
    /\ HasTag(datapoint, "candidate_id", candidate_id)

\* C6: every datapoint an ingestion job sends to the vector index, and every
\* datapoint the index stores, carries exactly three restriction tags,
\* recruiter_uuid, batch_tag and candidate_id, each with an allow-list of
\* exactly the value of the stored record its chunk id names.
C6_ThreeRestrictionTags ==
    /\ \A id \in DOMAIN vector_index :
          /\ vector_index[id].datapointId = id
          /\ TaggedFor(vector_index[id], SubSeq(id, 1, 2))
    /\ \A i \in 1..Len(job.request) :
          /\ SubSeq(job.request[i].datapointId, 1, 2) = job.candidate_id
          /\ TaggedFor(job.request[i], job.candidate_id)

\* The index holds datapoints of two records ingested for different
\* recruiters, the second just upserted.
C6_Witness ==
    /\ job_outcome = "success"
    /\ \E id1, id2 \in DOMAIN vector_index :
          /\ SubSeq(id2, 1, 2) = job.candidate_id
          /\ candidates_store[SubSeq(id1, 1, 2)].recruiter_uuid # job.recruiter_uuid

\* Every occurrence of later in log has an occurrence of earlier before it.
Precedes(log, earlier, later) ==
    \A j \in 1..Len(log) :
       log[j] = later => \E i \in 1..(j - 1) : log[i] = earlier

\* C7: in every ingestion, by the storage-triggered function or by the
\* upload endpoint, the record write precedes chunking and embedding, and
\* an ingestion that embedded chunks reports success only after their upsert.
C7_StepsOrdered ==
    \A log \in {job_log, upload_log} :
       /\ Precedes(log, "record_written", "chunked")
       /\ Precedes(log, "record_written", "embedded")
       /\ (\E i \in 1..Len(log) : log[i] = "embedded") =>
             Precedes(log, "upserted", "reported_success")

\* C8: the candidates collection holds at most one record for one source
\* document, however often the document was ingested.
C8_OneRecordPerSource ==
    \A c1, c2 \in CandidateIds :
       (/\ candidates_store[c1].exists
        /\ candidates_store[c2].exists
        /\ candidates_store[c1].resume_gcs_url = candidates_store[c2].resume_gcs_url)
          => c1 = c2

\* C9: an ingestion that ended because the upsert failed had sent the upsert
\* more than once, and did not report success.
C9_UpsertRetried ==
    job_outcome = "error_upsert" =>
       /\ job.upsert_attempts > 1
       /\ \A i \in 1..Len(job_log) : job_log[i] # "reported_success"

\* C10: a call of an upsert function that repeats the arguments of the
\* call before it, which returned normally, leaves both stores as they
\* were: the same ids, the same value under each.
C10_UpsertIdempotent ==
    [][(last_upsert'.repeated /\ ~last_upsert'.raised) =>
          /\ resume_chunks' = resume_chunks
          /\ vector_index' = vector_index]_vars

\* Two chunks were upserted twice in a row with the same arguments.
C10_Witness ==
    /\ last_upsert.fn = "upsert_chunks_firestore"
    /\ last_upsert.repeated
    /\ ~last_upsert.raised
    /\ Len(last_upsert.args[3]) = 2
    /\ Cardinality(DOMAIN resume_chunks) >= 2

\* C11: when get_embeddings returns a number of vectors other than the
\* number of chunk texts, the job ends in error with no upsert request and no
\* datapoint of its record in the index; a request is built only from equal
\* counts, and pairs each chunk id with the vector of that chunk's text.
C11_CountMismatchFatal ==
    /\ (job.received # -1 /\ job.received # Len(job.chunks)) =>
          /\ job_pc = "done"
          /\ job_outcome = "error_mismatch"
          /\ job.request = << >>
          /\ \A i \in 1..Len(job.calls) : job.calls[i] # "upsert_to_vector_search"
          /\ \A i \in 1..Len(job_log) : job_log[i] # "reported_success"
          /\ \A id \in DOMAIN vector_index : SubSeq(id, 1, 2) # job.candidate_id
    /\ job.request # << >> =>
          /\ Len(job.request) = Len(job.chunks)
          /\ \A i \in 1..Len(job.request) :
                /\ job.request[i].datapointId = job.chunks[i].id
                /\ job.request[i].featureVector.of = job.chunks[i].text_content

\* The endpoint returned one vector more than the texts of a second job,
\* while the index holds the datapoints of the first.
C11_Witness ==
    /\ job_outcome = "error_mismatch"
    /\ job.received = Len(job.chunks) + 1
    /\ DOMAIN vector_index # {}

\* C12: every vector in an upsert request an ingestion job has sent, and
\* every vector the index stores, has the index's dimension.
C12_DimensionValidated ==
    /\ \A i \in 1..Len(job.request) :
          job.request[i].featureVector.dim = "index_dim"
    /\ \A id \in DOMAIN vector_index :
          vector_index[id].featureVector.dim = "index_dim"

\* The record ids of a list of chunk ids of at least three parts.
RecordIdsOf(chunk_ids, prefixes) ==
    {<<chunk_ids[i][1], chunk_ids[i][2]>> :
        i \in {j \in 1..Len(chunk_ids) :
                 Len(chunk_ids[j]) >= 3 /\ chunk_ids[j][1] \in prefixes}}

Range(s) == {s[i] : i \in 1..Len(s)}

\* C13 as stated: for chunk ids <prefix>_<uuid>_<category>[_<ordinal>] of
\* any prefix, extract_candidate_ids returns the record id <prefix>_<uuid>
\* of each, once.
C13_RecordIdRecovered ==
    called.fn = "extract_candidate_ids" =>
       /\ RecordIdsOf(called.args[1], {"cnd", "doc"}) \subseteq Range(returned)
       /\ Cardinality(Range(returned)) = Len(returned)

\* C13, amended: for chunk ids cnd_<uuid>_<category>[_<ordinal>], which are
\* all the ids chunk_parsed_resume gives the records of this program,
\* extract_candidate_ids returns the record id cnd_<uuid> of each, once, and
\* nothing for an id that does not start with cnd; so the chunk ids of one
\* record give that record id alone.
C13_CndRecordIdRecovered ==
    /\ \A id \in ChunkerIds : Len(id) >= 3 /\ <<id[1], id[2]>> \in CandidateIds
    /\ called.fn = "extract_candidate_ids" =>
          /\ RecordIdsOf(called.args[1], {"cnd"}) \subseteq Range(returned)
          /\ \A c \in Range(returned) :
                \E i \in 1..Len(called.args[1]) :
                   /\ Len(called.args[1][i]) >= 2
                   /\ called.args[1][i][1] = "cnd"
                   /\ c = <<called.args[1][i][1], called.args[1][i][2]>>
          /\ Cardinality(Range(returned)) = Len(returned)

\* Two chunk ids chunk_parsed_resume gives one record came back as that
\* record's id alone.
C13_Witness ==
    /\ called.fn = "extract_candidate_ids"
    /\ called.args[1] = << <<"cnd", "u1", "summary">>, <<"cnd", "u1", "work", "0">> >>
    /\ returned = << <<"cnd", "u1">> >>

\* Neighbours come nearest first, so among the record ids of a chunk-id list
\* the one whose first chunk comes earlier has the greater maximum score.
FirstChunk(chunk_ids, candidate_id) ==
    CHOOSE i \in 1..Len(chunk_ids) :
       /\ Len(chunk_ids[i]) >= 2
       /\ <<chunk_ids[i][1], chunk_ids[i][2]>> = candidate_id
       /\ \A j \in 1..(i - 1) :
             ~(Len(chunk_ids[j]) >= 2 /\ <<chunk_ids[j][1], chunk_ids[j][2]>> = candidate_id)

\* C14: the records search_candidates returns are in descending order of
\* their maximum chunk score.
C14_DescendingByMaxScore ==
    sc_pc = "done" =>
       \A i, j \in 1..Len(sc_result) :
          i < j => FirstChunk(sc_chunk_ids, sc_result[i].candidate_id)
                     < FirstChunk(sc_chunk_ids, sc_result[j].candidate_id)

\* C15: when a record id resolves to no stored document, every
\* other record id extracted from the chunk ids whose document exists,
\* matches the filters given and could be read is in the result.
C15_EveryOtherRecordAppears ==
    (/\ sc_pc = "done"
     /\ \E i \in 1..Len(sc_fetched) : sc_fetched[i].outcome = "not_found") =>
       \A c \in extract_candidate_ids(sc_chunk_ids) :
          (/\ candidates_store[c].exists
           /\ sc_args.batch_tag # "" =>
                 candidates_store[c].batch_tag = sc_args.batch_tag
           /\ sc_args.recruiter_uuid # "" =>
                 candidates_store[c].recruiter_uuid = sc_args.recruiter_uuid
           /\ \A i \in 1..Len(sc_fetched) :
                 sc_fetched[i].candidate_id = c => sc_fetched[i].outcome # "error")
          => \E k \in 1..Len(sc_result) : sc_result[k].candidate_id = c

\* The place of a chunk id in the chunker's order: its category, then its
\* ordinal.
IndexOf(s, x) == CHOOSE i \in 1..Len(s) : s[i] = x

Categories == <<"summary", "skills", "work", "edu", "project">>

ChunkRank(id) ==
    10 * IndexOf(Categories, id[3])
      + (IF Len(id) >= 4 THEN IndexOf(Ordinals, id[4]) ELSE 0)

IdsIn(chunks) == {chunks[i].id : i \in 1..Len(chunks)}

SectionEmitted(chunks, candidate_id, label, entries) ==
    /\ \A n \in 1..Len(entries) :
          \E i \in 1..Len(chunks) :
             /\ chunks[i].id = candidate_id \o <<label, Ordinals[n]>>
             /\ chunks[i].text_content = <<label, entries[n]>>
    /\ Cardinality({i \in 1..Len(chunks) : chunks[i].id[3] = label}) = Len(entries)

\* C16: chunk_parsed_resume gives one summary chunk iff the summary is not
\* empty, one skills chunk iff there are skills, and one chunk for each work,
\* education and project entry numbered from 0, in that order of categories
\* and ordinals, each chunk carrying its entry's text, and no two chunks of
\* the record share an id.
C16_ChunksByCategory ==
    called.fn = "chunk_parsed_resume" =>
       LET c == called.args[1]
           p == called.args[2]
       IN /\ (c \o <<"summary">> \in IdsIn(returned)) <=> (p.summary # "")
          /\ (c \o <<"skills">> \in IdsIn(returned)) <=> (p.skills # << >>)
          /\ Cardinality({i \in 1..Len(returned) :
                            returned[i].id[3] \in {"summary", "skills"}})
               = (IF p.summary # "" THEN 1 ELSE 0) + (IF p.skills # << >> THEN 1 ELSE 0)
          /\ SectionEmitted(returned, c, "work", p.work_experience)
          /\ SectionEmitted(returned, c, "edu", p.education)
          /\ SectionEmitted(returned, c, "project", p.projects)
          /\ \A i \in 1..Len(returned) :
                /\ Len(returned[i].id) >= 3
                /\ <<returned[i].id[1], returned[i].id[2]>> = c
                /\ returned[i].id[3] \in Range(Categories)
          /\ \A i, j \in 1..Len(returned) :
                i < j => ChunkRank(returned[i].id) < ChunkRank(returned[j].id)
          /\ Cardinality(IdsIn(returned)) = Len(returned)

\* A record with a summary, skills and two work entries gave four chunks,
\* the work entries numbered 0 and 1.
C16_Witness ==
    /\ called.fn = "chunk_parsed_resume"
    /\ called.args[2].summary # ""
    /\ called.args[2].skills # << >>
    /\ Len(called.args[2].work_experience) = 2
    /\ called.args[2].education = << >>
    /\ called.args[2].projects = << >>
    /\ Len(returned) = 4
    /\ returned[3].id = called.args[1] \o <<"work", "0">>
    /\ returned[4].id = called.args[1] \o <<"work", "1">>

EmptyRecord(p) ==
    /\ p.summary = ""
    /\ p.skills = << >>
    /\ p.work_experience = << >>
    /\ p.education = << >>
    /\ p.projects = << >>

\* C17: when the parsed record has no summary, no skills and no entries, the
\* chunker gives the empty list and the job ends there without error: it
\* calls neither get_embeddings nor upsert_to_vector_search and sends nothing
\* to the index.
C17_EmptyRecordSkipsIndexing ==
    (/\ \E i \in 1..Len(job_log) : job_log[i] = "chunked"
     /\ EmptyRecord(job.parsed_data)) =>
       /\ job.chunks = << >>
       /\ job_pc = "done"
       /\ job_outcome = "no_chunks"
       /\ \A i \in 1..Len(job.calls) :
             job.calls[i] \notin {"get_embeddings", "upsert_to_vector_search"}
       /\ job.request = << >>
       /\ job.upsert_attempts = 0

\* A job whose record was parsed empty and written ended at the chunker.
C17_Witness ==
    /\ job_pc = "done"
    /\ job_outcome = "no_chunks"
    /\ EmptyRecord(job.parsed_data)
    /\ job.calls = <<"extract_text_from_pdf", "parse_resume_with_gemini", "firestore_set">>
    /\ job_log[Len(job_log)] = "chunked"

\* C18: an event whose path has fewer than three parts (fewer than the two
\* leading segments before the file's name) ends the job at once with the
\* outcome "skipped_path", the message of line 553 printed and the handler
\* returned: no extraction, model call, record write, embedding or upsert
\* has been made for it.
C18_MalformedPathSkipped ==
    (job.file_name # << >> /\ Len(job.file_name) < 3) =>
       /\ job_pc = "done"
       /\ job_outcome = "skipped_path"
       /\ job.calls = << >>
       /\ job.candidate_id = << >>
       /\ job.request = << >>
       /\ job_log = << >>

\* The event for "r1/a.pdf", one leading segment, was skipped.
C18_Witness ==
    /\ job.file_name = <<"r1", "a.pdf">>
    /\ job_pc = "done"
    /\ job_outcome = "skipped_path"
    /\ job.calls = << >>

\* C19: when extraction returns no text, the job ends with the outcome
\* "empty_text" and no error: extract_text_from_pdf has been called once and
\* nothing else, so no model call, record write, embedding or upsert.
C19_EmptyTextTerminal ==
    job.raw_text = "empty" =>
       /\ job_pc = "done"
       /\ job_outcome = "empty_text"
       /\ job.calls = <<"extract_text_from_pdf">>
       /\ job.candidate_id = << >>
       /\ job.request = << >>
       /\ job.upsert_attempts = 0

\* A job for a well-formed path whose document held no text has ended.
C19_Witness ==
    /\ job.raw_text = "empty"
    /\ job.file_name = <<"r1", "X", "a.pdf">>
    /\ job_pc = "done"
    /\ job_outcome = "empty_text"
    /\ job.calls = <<"extract_text_from_pdf">>

\* The object of the contract's example: ExampleText from its first '{' to
\* the '}' before " trailing text".
ExampleObject == SubSeq(ExampleText, 15, 53)

\* A scan in which a backslash escapes the next character inside a string
\* literal only.
RECURSIVE JsonBalancedFrom(_, _, _, _, _, _)
JsonBalancedFrom(s, start, i, in_string, escape_next, stack) ==
    IF i > Len(s) THEN NoObject
    ELSE IF escape_next THEN JsonBalancedFrom(s, start, i + 1, in_string, FALSE, stack)
    ELSE IF in_string /\ s[i] = "\\"
    THEN JsonBalancedFrom(s, start, i + 1, in_string, TRUE, stack)
    ELSE IF s[i] = "\"" THEN JsonBalancedFrom(s, start, i + 1, ~in_string, FALSE, stack)
    ELSE IF ~in_string /\ s[i] = "{"
    THEN JsonBalancedFrom(s, start, i + 1, in_string, FALSE, stack + 1)
    ELSE IF ~in_string /\ s[i] = "}" /\ stack = 1 THEN Found(SubSeq(s, start, i))
    ELSE IF ~in_string /\ s[i] = "}"
    THEN JsonBalancedFrom(s, start, i + 1, in_string, FALSE, stack - 1)
    ELSE JsonBalancedFrom(s, start, i + 1, in_string, FALSE, stack)

\* C20 as stated: the result is the text from the first '{' to the '}' that
\* brings the depth back to 0, every brace outside a string literal counted
\* and none inside one, a backslash escaping the next character of a string
\* literal; None when there is no such '}'.
C20_FirstBalancedObject ==
    called.fn = "_extract_first_balanced_json" =>
       LET s == called.args[1]
       IN returned = (IF FindBrace(s) = 0 THEN NoObject
                      ELSE JsonBalancedFrom(s, FindBrace(s), FindBrace(s), FALSE, FALSE, 0))

\* The backslashes that stand right before index i, from start on.
RunBefore(s, start, i) ==
    CHOOSE k \in 0..(i - start) :
       /\ \A j \in (i - k)..(i - 1) : s[j] = "\\"
       /\ k = i - start \/ s[i - k - 1] # "\\"

Unescaped(s, start, i) == s[i] # "\\" /\ RunBefore(s, start, i) % 2 = 0

InString(s, start, i) ==
    Cardinality({j \in start..(i - 1) : s[j] = "\"" /\ Unescaped(s, start, j)}) % 2 = 1

Counted(s, start, i) ==
    /\ s[i] \in {"{", "}"}
    /\ Unescaped(s, start, i)
    /\ ~InString(s, start, i)

Depth(s, start, e) ==
    Cardinality({j \in start..e : Counted(s, start, j) /\ s[j] = "{"})
      - Cardinality({j \in start..e : Counted(s, start, j) /\ s[j] = "}"})

Closers(s, start) ==
    {e \in start..Len(s) : Counted(s, start, e) /\ s[e] = "}" /\ Depth(s, start, e) = 0}

\* C20, amended: the result is the text from the first '{' to the first '}'
\* that brings the depth back to 0, where a brace counts unless it is inside
\* a string literal or follows an unescaped backslash, inside a string
\* literal or outside one; None when there is no '{' or no such '}'.  For
\* the example text the result is the example object.
C20_FirstBalancedObjectUnescaped ==
    called.fn = "_extract_first_balanced_json" =>
       LET s == called.args[1]
           start == FindBrace(s)
       IN /\ IF start = 0 \/ Closers(s, start) = {}
             THEN returned = NoObject
             ELSE returned =
                    Found(SubSeq(s, start,
                                 CHOOSE e \in Closers(s, start) :
                                    \A f \in Closers(s, start) : e <= f))
          /\ s = ExampleText => returned = Found(ExampleObject)

\* The example text gave the example object, the '}' inside its string
\* literal passed over.
C20_Witness ==
    /\ called.fn = "_extract_first_balanced_json"
    /\ called.args[1] = ExampleText
    /\ returned = Found(ExampleObject)
    /\ \E i \in 1..(Len(ExampleObject) - 1) : ExampleObject[i] = "}"

\* The job's parser got as far as decoding the text of the reply.
DecodingReached ==
    /\ job.parse.reply.status = 200
    /\ job.parse.reply.shape = "text"

\* C21: the parser decodes the cleaned text; when that fails it decodes
\* once more, the text with its typographic quotation marks made ASCII; when
\* that fails too the parse ends with a json_decode error and no record: the
\* job ends as failed in parsing without a record id drawn or written.
C21_DecodeRetriedOnce ==
    DecodingReached =>
       LET decoded == job.parse.decoded
       IN /\ Len(decoded) \in {1, 2}
          /\ decoded[1] = CleanedJsonText(job.parse.reply.text)
          /\ Len(decoded) = 1 <=> json_loads(decoded[1]).ok
          /\ Len(decoded) = 2 => decoded[2] = NormaliseQuotes(decoded[1])
          /\ job.parse.stage = "json_decode" <=>
                (Len(decoded) = 2 /\ ~json_loads(decoded[2]).ok)
          /\ job.parse.stage = "json_decode" =>
                /\ job_pc = "done"
                /\ job_outcome = "error_parse"
                /\ job.parsed_data = NoParsed
                /\ job.candidate_id = << >>
                /\ \A i \in 1..Len(job.calls) : job.calls[i] # "firestore_set"

\* A reply with typographic quotation marks and a trailing comma was decoded
\* twice and the job ended without a record.
C21_Witness ==
    /\ DecodingReached
    /\ job.parse.reply.text.quoting = "smart"
    /\ job.parse.reply.text.broken
    /\ Len(job.parse.decoded) = 2
    /\ job.parse.stage = "json_decode"
    /\ job_outcome = "error_parse"

\* C22: when the decoded value is not an object, nor a list whose first
\* element is one, the parse fails and gives no record.
C22_NonObjectFailsParse ==
    (/\ DecodingReached
     /\ Len(job.parse.decoded) >= 1
     /\ json_loads(job.parse.decoded[Len(job.parse.decoded)]).ok
     /\ json_loads(job.parse.decoded[Len(job.parse.decoded)]).value.kind
          \notin {"object", "list_of_objects"}) =>
       /\ job.parse.stage # ""
       /\ job_outcome = "error_parse"
       /\ \A i \in 1..Len(job.calls) : job.calls[i] # "firestore_set"

\* C23: when the decoded object has a field of the wrong type, the parse
\* still succeeds and the record has that field's default.
C23_WrongTypeFallsBack ==
    (/\ DecodingReached
     /\ Len(job.parse.decoded) >= 1
     /\ json_loads(job.parse.decoded[Len(job.parse.decoded)]).ok
     /\ json_loads(job.parse.decoded[Len(job.parse.decoded)]).value.kind = "object") =>
       LET fields == json_loads(job.parse.decoded[Len(job.parse.decoded)]).value.first
       IN /\ job.parse.stage = ""
          /\ fields.summary # "ok" => job.parsed_data.summary = ""
          /\ fields.skills # "ok" => job.parsed_data.skills = << >>
          /\ fields.work_experience # "ok" => job.parsed_data.work_experience = << >>

EvidenceIds(chunks) == {chunks[i].candidate_id : i \in 1..Len(chunks)}

\* C24: whatever the model replies, when answer_query has retrieved at
\* least one evidence chunk it returns, with best_candidate_id one of the
\* candidates of the evidence.
C24_BestCandidateSet ==
    (/\ called.fn = "answer_query"
     /\ ~called.args.failed
     /\ returned.top_chunks # << >>) =>
       /\ ~returned.raised
       /\ returned.data.best_candidate_id \in EvidenceIds(returned.top_chunks)

\* C25: when the model's reply is not JSON, answer_query returns the raw
\* reply as the answer, and best_candidate_id is the candidate of an
\* evidence chunk of the highest score, or None without evidence.
C25_RawReplyFallback ==
    (/\ called.fn = "answer_query"
     /\ ~called.args.failed
     /\ called.args.reply = "not_json") =>
       /\ ~returned.raised
       /\ returned.data.answer = "raw_text"
       /\ returned.top_chunks = << >> => returned.data.best_candidate_id = ""
       /\ returned.top_chunks # << >> =>
             \E i \in 1..Len(returned.top_chunks) :
                /\ returned.top_chunks[i].candidate_id = returned.data.best_candidate_id
                /\ \A j \in 1..Len(returned.top_chunks) :
                      returned.top_chunks[j]._score <= returned.top_chunks[i]._score

\* Evidence of two candidates with different scores, the better one second
\* in the store's order, and a reply that is not JSON: the better candidate
\* was returned.
C25_Witness ==
    /\ called.fn = "answer_query"
    /\ called.args.reply = "not_json"
    /\ EvidenceIds(returned.top_chunks) = {"s1", "s2"}
    /\ \E i, j \in 1..Len(returned.top_chunks) :
          returned.top_chunks[i]._score < returned.top_chunks[j]._score
    /\ returned.data.answer = "raw_text"
    /\ returned.data.best_candidate_id = returned.top_chunks[1].candidate_id

\* C27: the score kept for a candidate with several evidence chunks is the
\* greatest of those chunks' scores, negative ones too.
C27_MaxScorePerRecord ==
    called.fn = "answer_query" =>
       \A k \in 1..Len(returned.cand_scores) :
          LET of == {i \in 1..Len(returned.top_chunks) :
                       returned.top_chunks[i].candidate_id
                         = returned.cand_scores[k].candidate_id}
          IN Cardinality(of) >= 2 =>
                /\ \E i \in of :
                      returned.cand_scores[k].score = returned.top_chunks[i]._score
                /\ \A i \in of :
                      returned.top_chunks[i]._score <= returned.cand_scores[k].score

\* C26: the document-store client is made at most once, whatever the
\* interleaving of the requests that ask for it.
C26_InitialisedAtMostOnce == clients_created <= 1

\* C28: whenever a thread's latest call of initialize_globals returned
\* normally, matching_engine_endpoint, embedding_model and DEPLOYMENT_ID are
\* set.
C28_ReturnedMeansInitialised ==
    \A t \in Threads :
       (/\ requests[t].fn = "initialize_globals"
        /\ requests[t].pc = "idle"
        /\ requests[t].outcome = "returned") =>
          /\ matching_engine_endpoint
          /\ embedding_model
          /\ DEPLOYMENT_ID

\* C29: an upload to a path at which an object is stored is answered 409
\* and leaves the object at that path as it was.
C29_DuplicateRejected ==
    upload_response.existed =>
        /\ upload_response.status = 409
        /\ bucket[upload_response.gcs_path] = upload_response.before

\* C30: in every call of chunk_text with chunk_size >= 1 and overlap >= 0
\* the loop's start is greater at each iteration than at the one before, and
\* no chunk is longer than chunk_size.
C30_StartIncreases ==
    called.fn = "chunk_text" =>
        /\ returned.start > returned.prev_start
        /\ \A i \in 1..Len(returned.chunks) :
              Len(returned.chunks[i]) <= called.args[2]

====
